---- MODULE Spec2Model ----
(***************************************************************************)
(* Model of mcp-pve's tool-gating and credential-sanitizing pipeline:      *)
(* the secret registry and sanitizer (core/errors.ts), the request engine  *)
(* (PveClient), the capability gate (core/tools.ts), the configuration     *)
(* loader and the startup sequence (index.ts).  Texts are TLA+ strings,    *)
(* handled character by character with Len, SubSeq, Head, Tail and \o.     *)
(***************************************************************************)
EXTENDS Integers, Sequences, FiniteSets, TLC

VARIABLES
  env,                  \* process.env, read once by loadConfig
  pc,                   \* where main() stands
  config,               \* the AppConfig loadConfig returned
  tlsOverride,          \* process.env.NODE_TLS_REJECT_UNAUTHORIZED = "0" was set
  SENSITIVE_PATTERNS,   \* errors.ts: the module-level registry of secrets
  client,               \* the PveClient createClient built
  nextTool,             \* registerAllTools: index of the next catalog entry
  tools,                \* the MCP server's table of registered tools
  stderr,               \* every line the logger wrote
  exitCode,             \* process.exit's argument, once called
  validation,           \* what each validation request came to, in order
  lastCall,             \* the tool call being answered, if any
  gate,                 \* the last registerTool call: its options, its return value
  probe,                \* a text handed to sanitizeMessage, and what came back
  inflight,             \* the backend requests awaiting their answer
  http                  \* the HTTP transport: requests handled, the last exchange

vars == <<env, pc, config, tlsOverride, SENSITIVE_PATTERNS, client, nextTool,
          tools, stderr, exitCode, validation, lastCall, gate, probe,
          inflight, http>>

\* A value that may be absent (undefined, null): None, or Some(x).
None == <<>>

Some(x) == <<x>>

\* The HTTP transport before startHttpServer has run.
NoHttp == [listening |-> FALSE]

(***************************************************************************)
(* Text primitives of the JavaScript runtime the code relies on.  Scans    *)
(* look for the first match by position, so that evaluation recurses once  *)
(* per match and not once per character.                                   *)
(***************************************************************************)
CharAt(s, i) == SubSeq(s, i, i)

\* The rest of s from position i on.
From(s, i) == SubSeq(s, i, Len(s))

\* The least element of a non-empty set of numbers.
Least(S) == CHOOSE i \in S : \A j \in S : i <= j

\* The texts of a sequence, concatenated (by halves).
RECURSIVE Concat(_)
Concat(parts) ==
  IF Len(parts) = 0 THEN ""
  ELSE IF Len(parts) = 1 THEN parts[1]
  ELSE LET h == Len(parts) \div 2
       IN Concat(SubSeq(parts, 1, h)) \o Concat(SubSeq(parts, h + 1, Len(parts)))

UpperLetters == "ABCDEFGHIJKLMNOPQRSTUVWXYZ"

LowerLetters == "abcdefghijklmnopqrstuvwxyz"

LowerOf ==
  [c \in {CharAt(UpperLetters, i) : i \in 1..Len(UpperLetters)} |->
     CharAt(LowerLetters, CHOOSE i \in 1..Len(UpperLetters) : CharAt(UpperLetters, i) = c)]

\* One character folded as the regular-expression flag i folds it (ASCII).
LowerChar(c) == IF c \in DOMAIN LowerOf THEN LowerOf[c] ELSE c

ToLower(s) == Concat([i \in 1..Len(s) |-> LowerChar(CharAt(s, i))])

\* The class \s of regular expressions, on the characters the model uses.
IsSpace(c) == c \in {" ", "\t", "\n", "\r"}

\* String.prototype.includes
Includes(s, sub) ==
  \E i \in 1..(Len(s) - Len(sub) + 1) : SubSeq(s, i, i + Len(sub) - 1) = sub

\* The positions of s where pat occurs.
Occurrences(s, pat) ==
  {i \in 1..(Len(s) - Len(pat) + 1) : SubSeq(s, i, i + Len(pat) - 1) = pat}

\* String.prototype.replaceAll with a non-empty string pattern: leftmost
\* occurrences, left to right, never rescanning the inserted text.
RECURSIVE ReplaceAll(_, _, _)
ReplaceAll(s, pat, rep) ==
  LET at == Occurrences(s, pat)
  IN IF at = {} THEN s
     ELSE SubSeq(s, 1, Least(at) - 1) \o rep
          \o ReplaceAll(From(s, Least(at) + Len(pat)), pat, rep)

\* Length of the longest prefix of s made of characters of class \s.
SpaceRun(s) == Least({i \in 1..Len(s) : ~IsSpace(CharAt(s, i))} \cup {Len(s) + 1}) - 1

\* Length of the longest prefix of s made of characters of class \S.
NonSpaceRun(s) == Least({i \in 1..Len(s) : IsSpace(CharAt(s, i))} \cup {Len(s) + 1}) - 1

\* Length of the match of /<key>\s*\S+/i at the start of s, 0 when there is
\* none (key is given in lower case).  Both quantifiers are greedy and the
\* two classes are disjoint, so backtracking never finds another match.
KeyValueMatch(s, key) ==
  IF Len(s) > Len(key) /\ ToLower(SubSeq(s, 1, Len(key))) = key
  THEN LET rest == From(s, Len(key) + 1)
           sp == SpaceRun(rest)
           val == NonSpaceRun(From(rest, sp + 1))
       IN IF val > 0 THEN Len(key) + sp + val ELSE 0
  ELSE 0

\* Length of the match of /<key>\S+/i at the start of s, 0 when none.
KeyTokenMatch(s, key) ==
  IF Len(s) > Len(key) /\ ToLower(SubSeq(s, 1, Len(key))) = key
  THEN LET val == NonSpaceRun(From(s, Len(key) + 1))
       IN IF val > 0 THEN Len(key) + val ELSE 0
  ELSE 0

(***************************************************************************)
(* errors.ts: the sanitizer.                                               *)
(***************************************************************************)
REDACTED == "[REDACTED]"

\* sanitized.replace(/PVEAPIToken=\S+/gi, "PVEAPIToken=[REDACTED]")
RECURSIVE StripApiToken(_)
StripApiToken(s) ==
  LET at == {i \in Occurrences(ToLower(s), "pveapitoken=") :
                KeyTokenMatch(From(s, i), "pveapitoken=") > 0}
  IN IF at = {} THEN s
     ELSE LET i == Least(at)
              n == KeyTokenMatch(From(s, i), "pveapitoken=")
          IN SubSeq(s, 1, i - 1) \o "PVEAPIToken=" \o REDACTED \o StripApiToken(From(s, i + n))

\* sanitized.replace(/authorization:\s*\S+/gi, "authorization: [REDACTED]")
RECURSIVE StripAuthorization(_)
StripAuthorization(s) ==
  LET at == {i \in Occurrences(ToLower(s), "authorization:") :
                KeyValueMatch(From(s, i), "authorization:") > 0}
  IN IF at = {} THEN s
     ELSE LET i == Least(at)
              n == KeyValueMatch(From(s, i), "authorization:")
          IN SubSeq(s, 1, i - 1) \o "authorization: " \o REDACTED
             \o StripAuthorization(From(s, i + n))

\* The loop over the registry: each pattern in registration order.
RECURSIVE RedactPatterns(_, _)
RedactPatterns(patterns, s) ==
  IF Len(patterns) = 0 THEN s
  ELSE RedactPatterns(Tail(patterns), ReplaceAll(s, Head(patterns), REDACTED))

sanitizeMessage(message) ==
  StripAuthorization(StripApiToken(RedactPatterns(SENSITIVE_PATTERNS, message)))

(***************************************************************************)
(* JavaScript values as the request engine sees them.  A JSON value is a   *)
(* record tagged by t; an object is the sequence of its entries.           *)
(***************************************************************************)
Undefined == [t |-> "undefined"]

JNull == [t |-> "null"]

JBool(b) == [t |-> "boolean", b |-> b]

JNum(n) == [t |-> "number", n |-> n]

JStr(s) == [t |-> "string", s |-> s]

JArr(items) == [t |-> "array", items |-> items]

JObj(entries) == [t |-> "object", entries |-> entries]

Entry(k, v) == [k |-> k, v |-> v]

\* Reading a property throws a TypeError on null and undefined.
PropThrows(v) == v.t \in {"null", "undefined"}

\* v[key] for the keys the code reads ("data", "errors"): an own entry of an
\* object, undefined on every other value.
GetProp(v, key) ==
  IF v.t = "object" /\ \E i \in 1..Len(v.entries) : v.entries[i].k = key
  THEN v.entries[CHOOSE i \in 1..Len(v.entries) : v.entries[i].k = key].v
  ELSE Undefined

\* The message V8 gives the TypeError of reading a property of null.
NullPropMessage(v, key) ==
  "Cannot read properties of " \o v.t \o " (reading '" \o key \o "')"

Truthy(v) ==
  CASE v.t \in {"null", "undefined"} -> FALSE
    [] v.t = "boolean" -> v.b
    [] v.t = "number" -> v.n # 0
    [] v.t = "string" -> Len(v.s) > 0
    [] OTHER -> TRUE

\* Array.prototype.join
Join(parts, sep) ==
  Concat([i \in 1..Len(parts) |-> IF i = 1 THEN parts[i] ELSE sep \o parts[i]])

\* String(v), as a template literal converts v.
RECURSIVE JsToString(_)
JsToString(v) ==
  CASE v.t = "null" -> "null"
    [] v.t = "undefined" -> "undefined"
    [] v.t = "boolean" -> IF v.b THEN "true" ELSE "false"
    [] v.t = "number" -> ToString(v.n)
    [] v.t = "string" -> v.s
    [] v.t = "array" ->
         Join([i \in 1..Len(v.items) |->
                 IF v.items[i].t \in {"null", "undefined"} THEN ""
                 ELSE JsToString(v.items[i])], ",")
    [] OTHER -> "[object Object]"

\* Object.entries(v): own enumerable entries, keys as strings.
ObjectEntries(v) ==
  CASE v.t = "object" -> v.entries
    [] v.t = "array" -> [i \in 1..Len(v.items) |-> Entry(ToString(i - 1), v.items[i])]
    [] v.t = "string" -> [i \in 1..Len(v.s) |-> Entry(ToString(i - 1), JStr(CharAt(v.s, i)))]
    [] OTHER -> <<>>

Spaces(n) == Concat([i \in 1..n |-> " "])

\* JSON's escapes of the characters the model uses inside string values.
JsonEscapeChar(c) ==
  CASE c = "\"" -> "\\\""
    [] c = "\\" -> "\\\\"
    [] c = "\n" -> "\\n"
    [] c = "\t" -> "\\t"
    [] c = "\r" -> "\\r"
    [] OTHER -> c

JsonEscape(s) == Concat([i \in 1..Len(s) |-> JsonEscapeChar(CharAt(s, i))])

JsonQuote(s) == "\"" \o JsonEscape(s) \o "\""

\* JSON.stringify(v, null, gap) at nesting depth `depth`, for JSON values.
RECURSIVE JsonStringify(_, _, _)
JsonStringify(v, gap, depth) ==
  LET pad == Spaces(gap * (depth + 1))
      close == "\n" \o Spaces(gap * depth)
  IN CASE v.t = "null" -> "null"
       [] v.t = "boolean" -> IF v.b THEN "true" ELSE "false"
       [] v.t = "number" -> ToString(v.n)
       [] v.t = "string" -> JsonQuote(v.s)
       [] v.t = "array" ->
            IF Len(v.items) = 0 THEN "[]"
            ELSE "[\n" \o pad
                 \o Join([i \in 1..Len(v.items) |-> JsonStringify(v.items[i], gap, depth + 1)],
                         ",\n" \o pad)
                 \o close \o "]"
       [] OTHER ->
            IF Len(v.entries) = 0 THEN "{}"
            ELSE "{\n" \o pad
                 \o Join([i \in 1..Len(v.entries) |->
                            JsonQuote(v.entries[i].k) \o ": "
                            \o JsonStringify(v.entries[i].v, gap, depth + 1)],
                         ",\n" \o pad)
                 \o close \o "}"

(***************************************************************************)
(* types/index.ts and core/config.ts: configuration from the environment.  *)
(***************************************************************************)
VALID_CATEGORIES ==
  <<"nodes", "qemu", "lxc", "storage", "cluster", "access", "pools",
    "network", "firewall", "backup", "tasks", "ha">>

\* Array.prototype.includes
ArrayIncludes(arr, x) == \E i \in 1..Len(arr) : arr[i] = x

\* String.prototype.split(",")
RECURSIVE Split(_, _)
Split(s, sep) ==
  LET at == Occurrences(s, sep)
  IN IF at = {} THEN <<s>>
     ELSE <<SubSeq(s, 1, Least(at) - 1)>> \o Split(From(s, Least(at) + Len(sep)), sep)

\* String.prototype.trim
Trim(s) ==
  LET inked == {i \in 1..Len(s) : ~IsSpace(CharAt(s, i))}
  IN IF inked = {} THEN ""
     ELSE SubSeq(s, Least(inked), CHOOSE i \in inked : \A j \in inked : j <= i)

\* baseUrl.replace(/\/+$/, "")
StripTrailingSlashes(s) ==
  LET other == {i \in 1..Len(s) : CharAt(s, i) # "/"}
  IN IF other = {} THEN ""
     ELSE SubSeq(s, 1, CHOOSE i \in other : \A j \in other : j <= i)

\* Variant of Falsy: only an absent variable counts, an empty one does not.
FalsyUndefined(v) == v = None

\* !value for an environment variable: absent or empty.
Falsy(v) == v = None \/ v[1] = ""

\* Variant of parseAccessTier: a value that is not recognised gives the
\* lowest tier.
parseAccessTierClosed(e) ==
  IF e.PVE_ACCESS_TIER = Some("full") \/ e.PVE_ACCESS_TIER = Some("read-execute")
  THEN e.PVE_ACCESS_TIER[1]
  ELSE "read-only"

parseAccessTier(e) ==
  IF e.PVE_ACCESS_TIER = Some("read-only") \/ e.PVE_ACCESS_TIER = Some("read-execute")
  THEN e.PVE_ACCESS_TIER[1]
  ELSE "full"

\* The names parseCategories reads from the variable, before validation.
CategoryNames(value) ==
  LET trimmed == [i \in 1..Len(Split(value, ",")) |-> Trim(Split(value, ",")[i])]
      NonEmpty(c) == Len(c) > 0
  IN SelectSeq(trimmed, NonEmpty)

IsValidCategory(c) == ArrayIncludes(VALID_CATEGORIES, c)

IsInvalidCategory(c) == ~IsValidCategory(c)

\* Variant of parseCategories: the list of the valid names is returned even
\* when it is empty.
parseCategoriesKeepEmpty(value) ==
  IF value = None \/ value[1] = "" THEN None
  ELSE Some(SelectSeq(CategoryNames(value[1]), IsValidCategory))

\* The allow-list: None is null (no filter), Some(list) a list.
parseCategories(value) ==
  IF value = None \/ value[1] = "" THEN None
  ELSE LET valid == SelectSeq(CategoryNames(value[1]), IsValidCategory)
       IN IF Len(valid) > 0 THEN Some(valid) ELSE None

\* The lines parseCategories logs.
parseCategoriesWarnings(value) ==
  IF value = None \/ value[1] = "" THEN <<>>
  ELSE LET invalid == SelectSeq(CategoryNames(value[1]), IsInvalidCategory)
       IN IF Len(invalid) > 0
          THEN <<"[mcp-pve] WARN Ignoring unknown categories: " \o Join(invalid, ", ")
                 \o ". Valid: " \o Join(VALID_CATEGORIES, ", ")>>
          ELSE <<>>

\* The names loadConfig reports missing.
MissingVars(e) ==
  (IF Falsy(e.PVE_BASE_URL) THEN <<"PVE_BASE_URL">> ELSE <<>>)
  \o (IF Falsy(e.PVE_TOKEN_ID) THEN <<"PVE_TOKEN_ID">> ELSE <<>>)
  \o (IF Falsy(e.PVE_TOKEN_SECRET) THEN <<"PVE_TOKEN_SECRET">> ELSE <<>>)

\* Results of an operation that may throw.
Return(v) == [threw |-> FALSE, value |-> v]

Throw(e) == [threw |-> TRUE, error |-> e]

\* An Error instance; statusCode is PveError's optional field.
ErrorObj(name, message, statusCode) ==
  [isError |-> TRUE, name |-> name, message |-> message, statusCode |-> statusCode]

loadConfig(e) ==
  IF Len(MissingVars(e)) > 0
  THEN Throw(ErrorObj("Error",
         "Missing required environment variables: " \o Join(MissingVars(e), ", ") \o ". "
         \o "Set these variables to connect to your Proxmox VE instance.", None))
  ELSE Return([baseUrl |-> StripTrailingSlashes(e.PVE_BASE_URL[1]),
               tokenId |-> e.PVE_TOKEN_ID[1],
               tokenSecret |-> e.PVE_TOKEN_SECRET[1],
               accessTier |-> parseAccessTier(e),
               categories |-> parseCategories(e.PVE_CATEGORIES),
               verifySsl |-> e.PVE_VERIFY_SSL # Some("false"),
               debug |-> ~Falsy(e.DEBUG)])

(***************************************************************************)
(* core/logger.ts                                                          *)
(***************************************************************************)
PREFIX == "[mcp-pve]"

LogLine(level, message) == PREFIX \o " " \o level \o " " \o message

\* logger.debug writes only when process.env.DEBUG is set.
DebugLines(e, message) ==
  IF Falsy(e.DEBUG) THEN <<>> ELSE <<LogLine("DEBUG", message)>>

(***************************************************************************)
(* core/client.ts: the request engine.  What fetch produced is either a    *)
(* rejection (network failure, timeout) or a response; a response body is  *)
(* its text together with the value response.json() reads from it, or the  *)
(* SyntaxError it throws.                                                  *)
(***************************************************************************)
REQUEST_TIMEOUT_MS == 30000

PveError(message, statusCode) == ErrorObj("PveError", message, statusCode)

Rejected(name, message) == [kind |-> "reject", error |-> ErrorObj(name, message, None)]

Body(text, json) == [text |-> text, json |-> json]

SyntaxErr(message) == [t |-> "SyntaxError", message |-> message]

Response(status, statusText, contentType, body) ==
  [kind |-> "response", status |-> status, statusText |-> statusText,
   contentType |-> contentType, body |-> body]

\* response.ok
ResponseOk(r) == r.status >= 200 /\ r.status <= 299

\* Variant of NewPveClient: the header built as `${tokenId}:${tokenSecret}`.
NewPveClientColon(c) ==
  [baseUrl |-> c.baseUrl,
   authHeader |-> c.tokenId \o ":" \o c.tokenSecret,
   apiBase |-> c.baseUrl \o "/api2/json"]

\* new PveClient(config)
NewPveClient(c) ==
  [baseUrl |-> c.baseUrl,
   authHeader |-> "PVEAPIToken=" \o c.tokenId \o "=" \o c.tokenSecret,
   apiBase |-> c.baseUrl \o "/api2/json"]

\* Variant of registerSensitivePattern: nothing is pushed.
registerSensitivePatternDrop(registry, pattern) == registry

\* registerSensitivePattern: the registry after the call
registerSensitivePattern(registry, pattern) ==
  IF Len(pattern) > 0 THEN Append(registry, pattern) ELSE registry

\* The source joins the detail and the messages with U+2014 (an em dash),
\* written here in ASCII.
EM_DASH == "--"

\* `${k}: ${v}` of every entry of errBody.errors, joined.
ErrorMessages(errors) ==
  Join([i \in 1..Len(ObjectEntries(errors)) |->
          ObjectEntries(errors)[i].k \o ": " \o JsToString(ObjectEntries(errors)[i].v)],
       ", ")

\* Variant of ErrorDetail: a detail that drops the status text and the
\* errors of the body.
ErrorDetailStatusOnly(r) == ToString(r.status)

\* request(), the detail of a non-success response: the status line, and the
\* errors of the body when it parses and has some.
ErrorDetail(r) ==
  LET detail == ToString(r.status) \o " " \o r.statusText
      errBody == r.body.json
  IN IF errBody.t = "SyntaxError" \/ PropThrows(errBody) THEN detail
     ELSE IF Truthy(GetProp(errBody, "errors"))
          THEN detail \o " " \o EM_DASH \o " " \o ErrorMessages(GetProp(errBody, "errors"))
          ELSE detail

\* headers.get("content-type") || ""
ContentTypeOf(r) == IF r.contentType = None THEN "" ELSE r.contentType[1]

\* Variant of TextOrNull: `return text` without the `|| null`.
TextAsIs(text) == JStr(text)

\* request(), a body that is not JSON: `text || null`.
TextOrNull(text) == IF text = "" THEN JNull ELSE JStr(text)

\* Variant of requestTry: no inner try around the parse of an error body, so
\* what response.json() throws leaves the block.
requestTryParseThrows(method, path, out) ==
  IF out.kind = "reject" THEN Throw(out.error)
  ELSE IF ~ResponseOk(out) /\ out.body.json.t = "SyntaxError"
  THEN Throw(ErrorObj("SyntaxError", out.body.json.message, None))
  ELSE IF ~ResponseOk(out)
  THEN Throw(PveError(sanitizeMessage(method \o " " \o path \o " failed: " \o ErrorDetail(out)),
                      Some(out.status)))
  ELSE IF ~Includes(ContentTypeOf(out), "json")
  THEN Return(TextOrNull(out.body.text))
  ELSE IF out.body.json.t = "SyntaxError"
  THEN Throw(ErrorObj("SyntaxError", out.body.json.message, None))
  ELSE IF PropThrows(out.body.json)
  THEN Throw(ErrorObj("TypeError", NullPropMessage(out.body.json, "data"), None))
  ELSE Return(IF GetProp(out.body.json, "data") # Undefined
              THEN GetProp(out.body.json, "data")
              ELSE out.body.json)

\* request(), the try block: what it returns or throws.
requestTry(method, path, out) ==
  IF out.kind = "reject" THEN Throw(out.error)
  ELSE IF ~ResponseOk(out)
  THEN Throw(PveError(sanitizeMessage(method \o " " \o path \o " failed: " \o ErrorDetail(out)),
                      Some(out.status)))
  ELSE IF ~Includes(ContentTypeOf(out), "json")
  THEN Return(TextOrNull(out.body.text))
  ELSE IF out.body.json.t = "SyntaxError"
  THEN Throw(ErrorObj("SyntaxError", out.body.json.message, None))
  ELSE IF PropThrows(out.body.json)
  THEN Throw(ErrorObj("TypeError", NullPropMessage(out.body.json, "data"), None))
  ELSE Return(IF GetProp(out.body.json, "data") # Undefined
              THEN GetProp(out.body.json, "data")
              ELSE out.body.json)

\* Variant of request: no catch block, what fetch rejected with goes out.
requestUncaught(method, path, out) == requestTry(method, path, out)

\* Variant of request: the catch block wraps whatever was thrown, a
\* PveError included.
requestWrapsAll(method, path, out) ==
  LET r == requestTry(method, path, out)
  IN IF r.threw
     THEN Throw(PveError(sanitizeMessage(r.error.message), None))
     ELSE r

\* request(): the catch block rethrows a PveError and wraps anything else.
request(method, path, out) ==
  LET r == requestTry(method, path, out)
  IN IF r.threw /\ r.error.name # "PveError"
     THEN Throw(PveError(sanitizeMessage(r.error.message), None))
     ELSE r

\* json.data?.<key> ?? fallback
VersionField(json, key, fallback) ==
  LET data == GetProp(json, "data")
      field == IF PropThrows(data) THEN Undefined ELSE GetProp(data, key)
  IN IF PropThrows(field) THEN JStr(fallback) ELSE field

\* Variant of validateTry: no branch for 401 and 403, which are reported as
\* every other non-success status.
validateTryNoAuth(cl, out) ==
  IF out.kind = "reject" THEN Throw(out.error)
  ELSE IF ~ResponseOk(out)
  THEN Throw(PveError("Connection check failed: " \o ToString(out.status) \o " " \o out.statusText,
                      Some(out.status)))
  ELSE IF out.body.json.t = "SyntaxError"
  THEN Throw(ErrorObj("SyntaxError", out.body.json.message, None))
  ELSE IF PropThrows(out.body.json)
  THEN Throw(ErrorObj("TypeError", NullPropMessage(out.body.json, "data"), None))
  ELSE LET version == VersionField(out.body.json, "version", "unknown")
           release == VersionField(out.body.json, "release", "")
       IN Return(LogLine("INFO",
            "Connected to Proxmox VE at " \o cl.baseUrl \o " (version: " \o JsToString(version)
            \o (IF Truthy(release) THEN ", release: " \o JsToString(release) ELSE "") \o ")"))

\* PveClient.validateConnection, the try block: the line it logs, or what it
\* throws.
validateTry(cl, out) ==
  IF out.kind = "reject" THEN Throw(out.error)
  ELSE IF out.status = 401 \/ out.status = 403
  THEN Throw(PveError("Authentication failed -- check PVE_TOKEN_ID and PVE_TOKEN_SECRET",
                      Some(out.status)))
  ELSE IF ~ResponseOk(out)
  THEN Throw(PveError("Connection check failed: " \o ToString(out.status) \o " " \o out.statusText,
                      Some(out.status)))
  ELSE IF out.body.json.t = "SyntaxError"
  THEN Throw(ErrorObj("SyntaxError", out.body.json.message, None))
  ELSE IF PropThrows(out.body.json)
  THEN Throw(ErrorObj("TypeError", NullPropMessage(out.body.json, "data"), None))
  ELSE LET version == VersionField(out.body.json, "version", "unknown")
           release == VersionField(out.body.json, "release", "")
       IN Return(LogLine("INFO",
            "Connected to Proxmox VE at " \o cl.baseUrl \o " (version: " \o JsToString(version)
            \o (IF Truthy(release) THEN ", release: " \o JsToString(release) ELSE "") \o ")"))

\* PveClient.validateConnection
clientValidateConnection(cl, out) ==
  LET r == validateTry(cl, out)
  IN IF r.threw /\ r.error.name # "PveError"
     THEN Throw(PveError(sanitizeMessage("Cannot connect to Proxmox VE at " \o cl.baseUrl
                                         \o ": " \o r.error.message), None))
     ELSE r

\* Variant of validateConnection: the failure is logged and startup goes on
\* (no process.exit).
validateConnectionNoExit(r) ==
  IF r.threw
  THEN [exit |-> FALSE,
        lines |-> <<LogLine("ERROR", "Failed to connect to Proxmox VE."),
                    LogLine("ERROR", "Check that PVE_BASE_URL is correct and the PVE host is reachable."),
                    LogLine("ERROR", "Details: " \o sanitizeMessage(r.error.message))>>]
  ELSE [exit |-> FALSE, lines |-> <<r.value>>]

\* validateConnection(client): the lines it makes the logger write and
\* whether it ends the process (process.exit(1)), r being what
\* client.validateConnection() came to.
validateConnection(r) ==
  IF r.threw
  THEN [exit |-> TRUE,
        lines |-> <<LogLine("ERROR", "Failed to connect to Proxmox VE."),
                    LogLine("ERROR", "Check that PVE_BASE_URL is correct and the PVE host is reachable."),
                    LogLine("ERROR", "Details: " \o sanitizeMessage(r.error.message))>>]
  ELSE [exit |-> FALSE, lines |-> <<r.value>>]

(***************************************************************************)
(* tools/*.ts: the catalog.  Every registerTool call of the twelve modules *)
(* in source order (the power-action loops unrolled), with the fields the  *)
(* gate reads.  NoAnnotations is a definition without `annotations`.       *)
(***************************************************************************)
NoAnnotations == <<>>

Tool(name, category, accessTier, annotations) ==
  [name |-> name, category |-> category, accessTier |-> accessTier,
   annotations |-> annotations]

\* unnamed/part_007: 8 tools
registerNodeTools ==
  <<
     Tool("pve_list_nodes", "nodes", "read-only", NoAnnotations),
     Tool("pve_get_node_status", "nodes", "read-only", NoAnnotations),
     Tool("pve_get_node_version", "nodes", "read-only", NoAnnotations),
     Tool("pve_get_node_dns", "nodes", "read-only", NoAnnotations),
     Tool("pve_get_node_time", "nodes", "read-only", NoAnnotations),
     Tool("pve_get_node_syslog", "nodes", "read-only", NoAnnotations),
     Tool("pve_list_node_services", "nodes", "read-only", NoAnnotations),
     Tool("pve_manage_node_service", "nodes", "read-execute", NoAnnotations)
  >>

\* src/tools/qemu.ts: 20 tools
registerQemuTools ==
  <<
     Tool("pve_list_qemu_vms", "qemu", "read-only", NoAnnotations),
     Tool("pve_get_qemu_status", "qemu", "read-only", NoAnnotations),
     Tool("pve_get_qemu_config", "qemu", "read-only", NoAnnotations),
     Tool("pve_get_qemu_rrddata", "qemu", "read-only", NoAnnotations),
     Tool("pve_list_qemu_snapshots", "qemu", "read-only", NoAnnotations),
     Tool("pve_start_qemu_vm", "qemu", "read-execute", NoAnnotations),
     Tool("pve_stop_qemu_vm", "qemu", "read-execute", NoAnnotations),
     Tool("pve_shutdown_qemu_vm", "qemu", "read-execute", NoAnnotations),
     Tool("pve_reboot_qemu_vm", "qemu", "read-execute", NoAnnotations),
     Tool("pve_suspend_qemu_vm", "qemu", "read-execute", NoAnnotations),
     Tool("pve_resume_qemu_vm", "qemu", "read-execute", NoAnnotations),
     Tool("pve_reset_qemu_vm", "qemu", "read-execute", NoAnnotations),
     Tool("pve_migrate_qemu_vm", "qemu", "read-execute", NoAnnotations),
     Tool("pve_create_qemu_vm", "qemu", "full", NoAnnotations),
     Tool("pve_delete_qemu_vm", "qemu", "full", [destructiveHint |-> TRUE]),
     Tool("pve_update_qemu_config", "qemu", "full", NoAnnotations),
     Tool("pve_clone_qemu_vm", "qemu", "full", NoAnnotations),
     Tool("pve_create_qemu_snapshot", "qemu", "full", NoAnnotations),
     Tool("pve_delete_qemu_snapshot", "qemu", "full", [destructiveHint |-> TRUE]),
     Tool("pve_rollback_qemu_snapshot", "qemu", "full", [destructiveHint |-> TRUE])
  >>

\* unnamed/part_004: 18 tools
registerLxcTools ==
  <<
     Tool("pve_list_lxc_containers", "lxc", "read-only", NoAnnotations),
     Tool("pve_get_lxc_status", "lxc", "read-only", NoAnnotations),
     Tool("pve_get_lxc_config", "lxc", "read-only", NoAnnotations),
     Tool("pve_get_lxc_rrddata", "lxc", "read-only", NoAnnotations),
     Tool("pve_list_lxc_snapshots", "lxc", "read-only", NoAnnotations),
     Tool("pve_start_lxc_container", "lxc", "read-execute", NoAnnotations),
     Tool("pve_stop_lxc_container", "lxc", "read-execute", NoAnnotations),
     Tool("pve_shutdown_lxc_container", "lxc", "read-execute", NoAnnotations),
     Tool("pve_reboot_lxc_container", "lxc", "read-execute", NoAnnotations),
     Tool("pve_suspend_lxc_container", "lxc", "read-execute", NoAnnotations),
     Tool("pve_resume_lxc_container", "lxc", "read-execute", NoAnnotations),
     Tool("pve_create_lxc_container", "lxc", "full", NoAnnotations),
     Tool("pve_delete_lxc_container", "lxc", "full", [destructiveHint |-> TRUE]),
     Tool("pve_update_lxc_config", "lxc", "full", NoAnnotations),
     Tool("pve_clone_lxc_container", "lxc", "full", NoAnnotations),
     Tool("pve_create_lxc_snapshot", "lxc", "full", NoAnnotations),
     Tool("pve_delete_lxc_snapshot", "lxc", "full", [destructiveHint |-> TRUE]),
     Tool("pve_rollback_lxc_snapshot", "lxc", "full", [destructiveHint |-> TRUE])
  >>

\* src/tools/storage.ts: 8 tools
registerStorageTools ==
  <<
     Tool("pve_list_storage", "storage", "read-only", NoAnnotations),
     Tool("pve_get_storage_config", "storage", "read-only", NoAnnotations),
     Tool("pve_list_node_storage", "storage", "read-only", NoAnnotations),
     Tool("pve_get_storage_status", "storage", "read-only", NoAnnotations),
     Tool("pve_list_storage_content", "storage", "read-only", NoAnnotations),
     Tool("pve_create_storage", "storage", "full", NoAnnotations),
     Tool("pve_update_storage", "storage", "full", NoAnnotations),
     Tool("pve_delete_storage", "storage", "full", [destructiveHint |-> TRUE])
  >>

\* unnamed/part_003: 9 tools
registerClusterTools ==
  <<
     Tool("pve_get_cluster_status", "cluster", "read-only", NoAnnotations),
     Tool("pve_list_cluster_resources", "cluster", "read-only", NoAnnotations),
     Tool("pve_get_next_vmid", "cluster", "read-only", NoAnnotations),
     Tool("pve_get_cluster_log", "cluster", "read-only", NoAnnotations),
     Tool("pve_get_cluster_options", "cluster", "read-only", NoAnnotations),
     Tool("pve_list_cluster_backup_info", "cluster", "read-only", NoAnnotations),
     Tool("pve_get_cluster_ha_status", "cluster", "read-only", NoAnnotations),
     Tool("pve_list_cluster_replication", "cluster", "read-only", NoAnnotations),
     Tool("pve_update_cluster_options", "cluster", "full", NoAnnotations)
  >>

\* src/tools/access.ts: 10 tools
registerAccessTools ==
  <<
     Tool("pve_list_users", "access", "read-only", NoAnnotations),
     Tool("pve_get_user", "access", "read-only", NoAnnotations),
     Tool("pve_list_roles", "access", "read-only", NoAnnotations),
     Tool("pve_list_groups", "access", "read-only", NoAnnotations),
     Tool("pve_list_acls", "access", "read-only", NoAnnotations),
     Tool("pve_list_domains", "access", "read-only", NoAnnotations),
     Tool("pve_create_user", "access", "full", NoAnnotations),
     Tool("pve_update_user", "access", "full", NoAnnotations),
     Tool("pve_delete_user", "access", "full", [destructiveHint |-> TRUE]),
     Tool("pve_update_acl", "access", "full", NoAnnotations)
  >>

\* unnamed/part_009: 5 tools
registerPoolTools ==
  <<
     Tool("pve_list_pools", "pools", "read-only", NoAnnotations),
     Tool("pve_get_pool", "pools", "read-only", NoAnnotations),
     Tool("pve_create_pool", "pools", "full", NoAnnotations),
     Tool("pve_update_pool", "pools", "full", NoAnnotations),
     Tool("pve_delete_pool", "pools", "full", [destructiveHint |-> TRUE])
  >>

\* src/tools/network.ts: 5 tools
registerNetworkTools ==
  <<
     Tool("pve_list_networks", "network", "read-only", NoAnnotations),
     Tool("pve_get_network", "network", "read-only", NoAnnotations),
     Tool("pve_create_network", "network", "full", NoAnnotations),
     Tool("pve_update_network", "network", "full", NoAnnotations),
     Tool("pve_delete_network", "network", "full", [destructiveHint |-> TRUE])
  >>

\* unnamed/part_008: 8 tools
registerFirewallTools ==
  <<
     Tool("pve_get_firewall_options", "firewall", "read-only", NoAnnotations),
     Tool("pve_list_firewall_rules", "firewall", "read-only", NoAnnotations),
     Tool("pve_list_firewall_aliases", "firewall", "read-only", NoAnnotations),
     Tool("pve_list_firewall_ipsets", "firewall", "read-only", NoAnnotations),
     Tool("pve_update_firewall_options", "firewall", "full", NoAnnotations),
     Tool("pve_create_firewall_rule", "firewall", "full", NoAnnotations),
     Tool("pve_update_firewall_rule", "firewall", "full", NoAnnotations),
     Tool("pve_delete_firewall_rule", "firewall", "full", [destructiveHint |-> TRUE])
  >>

\* src/tools/backup.ts: 5 tools
registerBackupTools ==
  <<
     Tool("pve_list_backup_jobs", "backup", "read-only", NoAnnotations),
     Tool("pve_get_backup_job", "backup", "read-only", NoAnnotations),
     Tool("pve_run_backup", "backup", "read-execute", NoAnnotations),
     Tool("pve_create_backup_job", "backup", "full", NoAnnotations),
     Tool("pve_delete_backup_job", "backup", "full", [destructiveHint |-> TRUE])
  >>

\* unnamed/part_006: 4 tools
registerTaskTools ==
  <<
     Tool("pve_list_tasks", "tasks", "read-only", NoAnnotations),
     Tool("pve_get_task_status", "tasks", "read-only", NoAnnotations),
     Tool("pve_get_task_log", "tasks", "read-only", NoAnnotations),
     Tool("pve_stop_task", "tasks", "read-execute", NoAnnotations)
  >>

\* src/tools/ha.ts: 5 tools
registerHaTools ==
  <<
     Tool("pve_list_ha_resources", "ha", "read-only", NoAnnotations),
     Tool("pve_get_ha_resource", "ha", "read-only", NoAnnotations),
     Tool("pve_create_ha_resource", "ha", "full", NoAnnotations),
     Tool("pve_update_ha_resource", "ha", "full", NoAnnotations),
     Tool("pve_delete_ha_resource", "ha", "full", [destructiveHint |-> TRUE])
  >>

\* tools/index.ts: registerAllTools walks the modules in this order.
Catalog ==
  registerNodeTools \o registerQemuTools \o registerLxcTools \o registerStorageTools
  \o registerClusterTools \o registerAccessTools \o registerPoolTools
  \o registerNetworkTools \o registerFirewallTools \o registerBackupTools
  \o registerTaskTools \o registerHaTools

(***************************************************************************)
(* core/tools.ts: the capability gate.                                     *)
(***************************************************************************)
TIER_LEVELS == ("read-only" :> 0) @@ ("read-execute" :> 1) @@ ("full" :> 2)

\* Variant of TierRejects: the comparison written with <=.
TierRejectsEqual(cfg, options) ==
  TIER_LEVELS[cfg.accessTier] <= TIER_LEVELS[options.accessTier]

\* Variant of TierRejects: the tiers compared for equality, a tool being
\* admitted only at its own tier.
TierRejectsOther(cfg, options) == cfg.accessTier # options.accessTier

\* registerTool, first test: the process tier is below the tool's tier.
TierRejects(cfg, options) ==
  TIER_LEVELS[cfg.accessTier] < TIER_LEVELS[options.accessTier]

\* Variant of CategoryRejects: an empty list counts as no filter.
CategoryRejectsUnlessEmpty(cfg, options) ==
  /\ cfg.categories # None
  /\ Len(cfg.categories[1]) > 0
  /\ ~ArrayIncludes(cfg.categories[1], options.category)

\* registerTool, second test: a filter is set and lacks the tool's category.
CategoryRejects(cfg, options) ==
  cfg.categories # None /\ ~ArrayIncludes(cfg.categories[1], options.category)

\* registerTool's return value: true when the tool is registered.
registerTool(cfg, options) ==
  IF TierRejects(cfg, options) THEN FALSE
  ELSE IF CategoryRejects(cfg, options) THEN FALSE
  ELSE TRUE

\* The line registerTool hands to logger.debug.
RegisterDebugMessage(cfg, options) ==
  IF TierRejects(cfg, options)
  THEN "Skipping tool \"" \o options.name \o "\" (requires " \o options.accessTier
       \o ", running in " \o cfg.accessTier \o " mode)"
  ELSE IF CategoryRejects(cfg, options)
  THEN "Skipping tool \"" \o options.name \o "\" (category \"" \o options.category
       \o "\" not in allowed categories)"
  ELSE "Registered tool: " \o options.name \o " [" \o options.category \o "]"

\* Variant of ToolAnnotations: the definition's own spread first, then the
\* defaults (the defaults override).
ToolAnnotationsDefaultsLast(options) ==
  [readOnlyHint |-> options.accessTier = "read-only", destructiveHint |-> FALSE]
  @@ options.annotations

\* The annotations registerTool passes to the server: the defaults, then
\* the definition's own (the spread overrides).
ToolAnnotations(options) ==
  options.annotations
  @@ [readOnlyHint |-> options.accessTier = "read-only", destructiveHint |-> FALSE]

\* The entry server.registerTool adds to the server's table.
ToolEntry(options) == [name |-> options.name, annotations |-> ToolAnnotations(options)]

\* Variant of executor: the catch block passes err.message on as it is.
executorUnsanitized(did) ==
  IF ~did.threw THEN [text |-> did.value, isError |-> FALSE]
  ELSE [text |-> IF did.error.isError THEN did.error.message
                 ELSE "An unknown error occurred",
        isError |-> TRUE]

\* Variant of executor: the catch block reads the message of whatever was
\* thrown, Error instance or not.
executorAnyMessage(did) ==
  IF ~did.threw THEN [text |-> did.value, isError |-> FALSE]
  ELSE [text |-> sanitizeMessage(did.error.message), isError |-> TRUE]

\* The executor registerTool wraps around options.handler: `did` is what the
\* handler did, Return(text) or Throw(value).
executor(did) ==
  IF ~did.threw THEN [text |-> did.value, isError |-> FALSE]
  ELSE [text |-> IF did.error.isError
                 THEN sanitizeMessage(did.error.message)
                 ELSE "An unknown error occurred",
        isError |-> TRUE]

(***************************************************************************)
(* The handlers of the tools the model calls.                              *)
(***************************************************************************)
\* The client call the handler makes.
HandlerRequest(name, args) ==
  CASE name = "pve_list_nodes" -> [method |-> "GET", path |-> "/nodes"]
    [] name = "pve_list_acls" -> [method |-> "GET", path |-> "/access/acl"]
    [] name = "pve_start_qemu_vm" ->
         [method |-> "POST",
          path |-> "/nodes/" \o args.node \o "/qemu/" \o ToString(args.vmid) \o "/status/start"]
    [] name = "pve_delete_backup_job" ->
         [method |-> "DELETE", path |-> "/cluster/backup/" \o args.id]

\* The text the handler returns, given the data the client returned.
HandlerText(name, args, data) ==
  CASE name = "pve_list_nodes" -> JsonStringify(data, 2, 0)
    [] name = "pve_list_acls" -> JsonStringify(data, 2, 0)
    [] name = "pve_start_qemu_vm" ->
         "VM " \o ToString(args.vmid) \o " start initiated on node " \o args.node
         \o ". Task: " \o JsToString(data)
    [] name = "pve_delete_backup_job" ->
         "Backup job '" \o args.id \o "' deleted successfully."

\* options.handler(args), once the client call came to r: the text, or the
\* client's failure, which passes through the handler unchanged.
handler(name, args, r) ==
  IF r.threw THEN r ELSE Return(HandlerText(name, args, r.value))

(***************************************************************************)
(* The inputs the model explores: environments, backend answers, calls.    *)
(***************************************************************************)
BaseEnv ==
  [PVE_BASE_URL |-> Some("https://pve:8006"),
   PVE_TOKEN_ID |-> Some("root@pam!mcp"),
   PVE_TOKEN_SECRET |-> Some("c0ffee-42"),
   PVE_ACCESS_TIER |-> None,
   PVE_CATEGORIES |-> None,
   PVE_VERIFY_SSL |-> None,
   DEBUG |-> None]

TierValues == {None, Some("read-only"), Some("read-execute"), Some("full")}

CategoryValues ==
  {None, Some(""), Some("storage"), Some("nodes, qemu"), Some("bogus"),
   Some("access,bogus,backup"), Some(" , ")}

SecretValues == {Some("c0ffee-42"), Some("ED")}

Envs ==
  {[BaseEnv EXCEPT !.PVE_ACCESS_TIER = t, !.PVE_CATEGORIES = c] :
     t \in TierValues, c \in CategoryValues}
  \cup {[BaseEnv EXCEPT !.PVE_TOKEN_SECRET = s, !.PVE_ACCESS_TIER = t] :
          s \in SecretValues, t \in TierValues}
  \cup {[BaseEnv EXCEPT !.PVE_ACCESS_TIER = t] :
          t \in {Some(""), Some("Read-Only"), Some("readonly"), Some("FULL")}}
  \cup {[BaseEnv EXCEPT !.PVE_BASE_URL = u] : u \in {None, Some("https://pve:8006//")}}
  \cup {[BaseEnv EXCEPT !.PVE_TOKEN_ID = i, !.PVE_TOKEN_SECRET = s] :
          i \in {None, Some("")}, s \in {None, Some("c0ffee-42")}}
  \cup {[BaseEnv EXCEPT !.PVE_VERIFY_SSL = v, !.DEBUG = d] :
          v \in {None, Some("false"), Some("true"), Some("FALSE"), Some("0")},
          d \in {None, Some("1")}}

JSON_TYPE == "application/json;charset=UTF-8"

B_EMPTY == Body("", SyntaxErr("Unexpected end of JSON input"))

B_TEXT == Body("OK", SyntaxErr("Unexpected token 'O', \"OK\" is not valid JSON"))

B_ENVELOPE ==
  Body("{\"data\":{\"foo\":1}}", JObj(<<Entry("data", JObj(<<Entry("foo", JNum(1))>>))>>))

B_DATA_NULL == Body("{\"data\":null}", JObj(<<Entry("data", JNull)>>))

B_OBJECT == Body("{\"foo\":1}", JObj(<<Entry("foo", JNum(1))>>))

B_ARRAY == Body("[1,\"a\"]", JArr(<<JNum(1), JStr("a")>>))

B_STRING == Body("\"UPID:pve1:0001\"", JStr("UPID:pve1:0001"))

B_NUMBER == Body("7", JNum(7))

B_BOOLEAN == Body("true", JBool(TRUE))

B_NULL == Body("null", JNull)

B_VERSION ==
  Body("{\"data\":{\"version\":\"8.2.4\",\"release\":\"8.2\"}}",
       JObj(<<Entry("data", JObj(<<Entry("version", JStr("8.2.4")),
                                   Entry("release", JStr("8.2"))>>))>>))

B_ERRORS ==
  Body("{\"data\":null,\"errors\":{\"vmid\":\"invalid format\",\"node\":\"no such node\"}}",
       JObj(<<Entry("data", JNull),
              Entry("errors", JObj(<<Entry("vmid", JStr("invalid format")),
                                     Entry("node", JStr("no such node"))>>))>>))

\* The access-control list names the token it was read with.
B_ACL(tokenId) ==
  Body("{\"data\":[{\"path\":\"/\",\"type\":\"token\",\"ugid\":\"" \o tokenId \o "\"}]}",
       JObj(<<Entry("data", JArr(<<JObj(<<Entry("path", JStr("/")),
                                          Entry("type", JStr("token")),
                                          Entry("ugid", JStr(tokenId))>>)>>))>>))

\* What fetch may produce for a request of a process configured with cfg.
\* The reason phrase of a response is the backend's text and may name the
\* token the request was made with.
FetchOutcomes(cfg) ==
  {Rejected("TypeError", "fetch failed"),
   Rejected("TimeoutError", "The operation was aborted due to timeout")}
  \cup {Response(200, "OK", Some(JSON_TYPE), b) :
          b \in {B_ENVELOPE, B_DATA_NULL, B_OBJECT, B_ARRAY, B_STRING, B_NUMBER,
                 B_BOOLEAN, B_NULL, B_VERSION, B_TEXT, B_ACL(cfg.tokenId)}}
  \cup {Response(200, "OK", ct, b) :
          ct \in {None, Some("text/plain")}, b \in {B_EMPTY, B_TEXT}}
  \cup {Response(st[1], st[2], Some(JSON_TYPE), b) :
          st \in {<<401, "Unauthorized">>, <<403, "Forbidden">>,
                  <<500, "Internal Server Error">>},
          b \in {B_EMPTY, B_ERRORS, B_TEXT, B_NULL, B_OBJECT}}
  \cup {Response(500, "token " \o cfg.tokenId \o " is locked", Some(JSON_TYPE), B_EMPTY)}

\* What the backend may answer to a request for `path`: the access-control
\* list is the answer of /access/acl only.
Answers(path, cfg) ==
  {out \in FetchOutcomes(cfg) :
     (out.kind = "response" /\ out.body = B_ACL(cfg.tokenId)) => path = "/access/acl"}

\* The tools the model calls, and the arguments it calls them with.
CallableTools ==
  {"pve_list_nodes", "pve_list_acls", "pve_start_qemu_vm", "pve_delete_backup_job"}

SampleArgs == [node |-> "pve1", vmid |-> 100, id |-> "job1"]

(***************************************************************************)
(* index.ts: main(), one action per step, and the calls served afterwards. *)
(***************************************************************************)
NoCall == [name |-> ""]

NoProbe == [text |-> "", sanitized |-> None, again |-> None]

Init ==
  /\ env \in Envs
  /\ pc = "loadConfig"
  /\ config = None
  /\ tlsOverride = FALSE
  /\ SENSITIVE_PATTERNS = <<>>
  /\ client = None
  /\ nextTool = 1
  /\ tools = {}
  /\ stderr = <<>>
  /\ exitCode = None
  /\ validation = <<>>
  /\ lastCall = NoCall
  /\ gate = None
  /\ probe = NoProbe
  /\ inflight = {}
  /\ http = NoHttp

\* Variant of LoadConfig: main() never sets NODE_TLS_REJECT_UNAUTHORIZED.
LoadConfigNoOverride ==
  /\ pc = "loadConfig"
  /\ LET r == loadConfig(env)
     IN IF r.threw
        THEN /\ stderr' = stderr \o <<LogLine("ERROR", r.error.message)>>
             /\ exitCode' = Some(1)
             /\ pc' = "exited"
             /\ UNCHANGED <<config, tlsOverride>>
        ELSE /\ config' = Some(r.value)
             /\ tlsOverride' = FALSE
             /\ stderr' = stderr \o parseCategoriesWarnings(env.PVE_CATEGORIES)
                  \o (IF r.value.verifySsl THEN <<>>
                      ELSE <<LogLine("WARN",
                               "TLS certificate verification disabled (PVE_VERIFY_SSL=false). "
                               \o "This is insecure and should only be used with self-signed certificates.")>>)
             /\ pc' = "createClient"
             /\ UNCHANGED exitCode
  /\ UNCHANGED <<env, SENSITIVE_PATTERNS, client, nextTool, tools, validation, lastCall,
                 gate, probe, inflight, http>>

\* main(): loadConfig(), and the TLS override of a configuration that
\* disables verification.
LoadConfig ==
  /\ pc = "loadConfig"
  /\ LET r == loadConfig(env)
     IN IF r.threw
        THEN /\ stderr' = stderr \o <<LogLine("ERROR", r.error.message)>>
             /\ exitCode' = Some(1)
             /\ pc' = "exited"
             /\ UNCHANGED <<config, tlsOverride>>
        ELSE /\ config' = Some(r.value)
             /\ tlsOverride' = ~r.value.verifySsl
             /\ stderr' = stderr \o parseCategoriesWarnings(env.PVE_CATEGORIES)
                  \o (IF r.value.verifySsl THEN <<>>
                      ELSE <<LogLine("WARN",
                               "TLS certificate verification disabled (PVE_VERIFY_SSL=false). "
                               \o "This is insecure and should only be used with self-signed certificates.")>>)
             /\ pc' = "createClient"
             /\ UNCHANGED exitCode
  /\ UNCHANGED <<env, SENSITIVE_PATTERNS, client, nextTool, tools, validation, lastCall,
                 gate, probe, inflight, http>>

\* createClient(config)
CreateClient ==
  /\ pc = "createClient"
  /\ SENSITIVE_PATTERNS' =
       registerSensitivePattern(
         registerSensitivePattern(SENSITIVE_PATTERNS, config[1].tokenId),
         config[1].tokenSecret)
  /\ client' = Some(NewPveClient(config[1]))
  /\ pc' = "validateConnection"
  /\ UNCHANGED <<env, config, tlsOverride, nextTool, tools, stderr, exitCode,
                 validation, lastCall, gate, probe, inflight, http>>

\* json.data?.<key>, as validateConnection reads the parsed body.
DataField(json, key) ==
  IF PropThrows(GetProp(json, "data")) THEN Undefined
  ELSE GetProp(GetProp(json, "data"), key)

\* What validateConnection reads of what fetch produced: the rejection, or
\* the status line of the response and, of its body, the parse failure, the
\* null, or the two fields of data that are read.
Seen(out) ==
  IF out.kind = "reject" THEN out
  ELSE [kind |-> "response", status |-> out.status, statusText |-> out.statusText,
        json |-> IF out.body.json.t \in {"SyntaxError", "null"} THEN out.body.json
                 ELSE [t |-> "read",
                       version |-> DataField(out.body.json, "version"),
                       release |-> DataField(out.body.json, "release")]]

\* The record of one run of PveClient.validateConnection: the request it
\* made, what it read of the answer, and what the method came to.
Validated(cl, out, r) ==
  [request |-> [method |-> "GET", url |-> cl.apiBase \o "/version", header |-> cl.authHeader],
   seen |-> Seen(out)] @@ r

\* await validateConnection(client), and main() up to createServer().
ValidateConnection ==
  /\ pc = "validateConnection"
  /\ \E out \in Answers("/version", config[1]) :
       LET r == clientValidateConnection(client[1], out)
           v == validateConnection(r)
       IN /\ validation' = Append(validation, Validated(client[1], out, r))
          /\ IF v.exit
             THEN /\ stderr' = stderr \o v.lines
                  /\ exitCode' = Some(1)
                  /\ pc' = "exited"
             ELSE /\ stderr' = stderr \o v.lines
                       \o <<LogLine("INFO", "Access tier: " \o config[1].accessTier)>>
                  /\ pc' = "registerAllTools"
                  /\ UNCHANGED exitCode
  /\ UNCHANGED <<env, config, tlsOverride, SENSITIVE_PATTERNS, client, nextTool, tools,
                 lastCall, gate, probe, inflight, http>>

\* registerAllTools(): one registerTool call.
RegisterTool ==
  /\ pc = "registerAllTools"
  /\ nextTool <= Len(Catalog)
  /\ LET options == Catalog[nextTool]
     IN /\ gate' = Some([options |-> options, returned |-> registerTool(config[1], options)])
        /\ tools' = IF registerTool(config[1], options)
                    THEN tools \cup {ToolEntry(options)}
                    ELSE tools
        /\ stderr' = stderr \o DebugLines(env, RegisterDebugMessage(config[1], options))
  /\ nextTool' = nextTool + 1
  /\ UNCHANGED <<env, pc, config, tlsOverride, SENSITIVE_PATTERNS, client, exitCode,
                 validation, lastCall, probe, inflight, http>>

\* startServer(server, config) on the stdio transport.
StartServer ==
  /\ pc = "registerAllTools"
  /\ nextTool > Len(Catalog)
  /\ stderr' = stderr \o <<LogLine("INFO", "mcp-pve listening on stdio")>>
  /\ pc' = "serving"
  /\ UNCHANGED <<env, config, tlsOverride, SENSITIVE_PATTERNS, client, nextTool, tools,
                 exitCode, validation, lastCall, gate, probe, inflight, http>>

\* Variant of CallTool: the executor passes the tool through registerTool's
\* tests again on every call.
CallToolGated ==
  /\ pc = "serving"
  /\ lastCall = NoCall
  /\ \E name \in CallableTools :
     \E out \in Answers(HandlerRequest(name, SampleArgs).path, config[1]) :
       /\ \E t \in tools : t.name = name
       /\ LET req == HandlerRequest(name, SampleArgs)
              r == request(req.method, req.path, out)
              did == handler(name, SampleArgs, r)
              options == Catalog[CHOOSE i \in 1..Len(Catalog) : Catalog[i].name = name]
          IN /\ lastCall' = [name |-> name, request |-> req, out |-> out, returned |-> r,
                             did |-> did, result |-> executor(did)]
             /\ gate' = Some([options |-> options,
                              returned |-> registerTool(config[1], options)])
  /\ UNCHANGED <<env, pc, config, tlsOverride, SENSITIVE_PATTERNS, client, nextTool, tools,
                 stderr, exitCode, validation, probe, inflight, http>>

\* One tools/call request: the transport finds the tool in the server's
\* table and runs its wrapped executor; the backend answers `out`.
CallTool ==
  /\ pc = "serving"
  /\ lastCall = NoCall
  /\ \E name \in CallableTools :
     \E out \in Answers(HandlerRequest(name, SampleArgs).path, config[1]) :
       /\ \E t \in tools : t.name = name
       /\ LET req == HandlerRequest(name, SampleArgs)
              r == request(req.method, req.path, out)
              did == handler(name, SampleArgs, r)
          IN lastCall' = [name |-> name, request |-> req, out |-> out, returned |-> r,
                          did |-> did, result |-> executor(did)]
  /\ UNCHANGED <<env, pc, config, tlsOverride, SENSITIVE_PATTERNS, client, nextTool, tools,
                 stderr, exitCode, validation, gate, probe, inflight, http>>

\* The transport sends the result to the caller; the cycle of the call ends.
Deliver ==
  /\ pc = "serving"
  /\ lastCall # NoCall
  /\ lastCall' = NoCall
  /\ UNCHANGED <<env, pc, config, tlsOverride, SENSITIVE_PATTERNS, client, nextTool, tools,
                 stderr, exitCode, validation, gate, probe, inflight, http>>

Next ==
  \/ LoadConfig
  \/ CreateClient
  \/ ValidateConnection
  \/ RegisterTool
  \/ StartServer
  \/ CallTool
  \/ Deliver

Spec == Init /\ [][Next]_vars

(***************************************************************************)
(* The capability gate on its own: registerTool called on a fresh server   *)
(* with any AppConfig and any definition of the catalog, then the executor *)
(* it wired called with a handler that does whatever a handler can do.     *)
(***************************************************************************)
\* AppConfig.categories: null, or any list (the type admits the empty one).
GateCategoryLists ==
  {None, Some(<<>>), Some(<<"storage">>), Some(<<"network">>),
   Some(<<"storage", "network">>)}

GateConfigs ==
  {[baseUrl |-> "https://pve:8006", tokenId |-> "root@pam!mcp",
    tokenSecret |-> "c0ffee-42", accessTier |-> t, categories |-> c,
    verifySsl |-> TRUE, debug |-> FALSE] :
     t \in {"read-only", "read-execute", "full"}, c \in GateCategoryLists}

GateOptions == {Catalog[i] : i \in 1..Len(Catalog)}

\* A thrown value that is no Error instance: a plain object with a message.
Thrown(message) ==
  [isError |-> FALSE, name |-> "", message |-> message, statusCode |-> None]

\* What options.handler(args) may do: return a text, throw an Error, throw
\* any other value.
HandlerOutcomes(cfg) ==
  {Return("Node pve1 is online"),
   Throw(ErrorObj("Error", "connect failed", None)),
   Throw(ErrorObj("Error", "login with secret " \o cfg.tokenSecret \o " was refused", None)),
   Throw(PveError("GET /nodes failed: 500 Internal Server Error", Some(500))),
   Throw(Thrown("boom")),
   Throw(Thrown("token " \o cfg.tokenId \o " expired"))}

InitGate ==
  /\ env = BaseEnv
  /\ pc = "gate"
  /\ config \in {Some(c) : c \in GateConfigs}
  /\ tlsOverride = FALSE
  /\ SENSITIVE_PATTERNS =
       registerSensitivePattern(registerSensitivePattern(<<>>, config[1].tokenId),
                                config[1].tokenSecret)
  /\ client = None
  /\ nextTool = 1
  /\ tools = {}
  /\ stderr = <<>>
  /\ exitCode = None
  /\ validation = <<>>
  /\ lastCall = NoCall
  /\ gate = None
  /\ probe = NoProbe
  /\ inflight = {}
  /\ http = NoHttp

\* registerTool(server, config, options)
GateRegister ==
  /\ pc = "gate"
  /\ gate = None
  /\ \E options \in GateOptions :
       /\ gate' = Some([options |-> options, returned |-> registerTool(config[1], options)])
       /\ tools' = IF registerTool(config[1], options)
                   THEN tools \cup {ToolEntry(options)}
                   ELSE tools
       /\ stderr' = stderr \o DebugLines(env, RegisterDebugMessage(config[1], options))
  /\ UNCHANGED <<env, pc, config, tlsOverride, SENSITIVE_PATTERNS, client, nextTool,
                 exitCode, validation, lastCall, probe, inflight, http>>

\* The server calls the executor of the registered tool.
GateCall ==
  /\ pc = "gate"
  /\ gate # None
  /\ lastCall = NoCall
  /\ \E t \in tools : t.name = gate[1].options.name
  /\ \E did \in HandlerOutcomes(config[1]) :
       lastCall' = [name |-> gate[1].options.name, did |-> did, result |-> executor(did)]
  /\ UNCHANGED <<env, pc, config, tlsOverride, SENSITIVE_PATTERNS, client, nextTool, tools,
                 stderr, exitCode, validation, gate, probe, inflight, http>>

NextGate ==
  \/ GateRegister
  \/ GateCall

SpecGate == InitGate /\ [][NextGate]_vars

(***************************************************************************)
(* The sanitizer on its own: sanitizeMessage applied to a text, after two  *)
(* calls of registerSensitivePattern.                                      *)
(***************************************************************************)
SanitizeSecrets ==
  {"", "c0ffee-42", "root@pam!mcp", "c0ffee", "ED", "[", "authorization"}

SanitizeTexts ==
  {"fetch failed",
   "connect failed: c0ffee-42",
   "token root@pam!mcp refused c0ffee-42, c0ffee-42",
   "c0ffee-c0ffee-42",
   "ED",
   "header [x] rejected",
   "sent Authorization: PVEAPIToken=root@pam!mcp=c0ffee-42 to host",
   "AUTHORIZATION:   Bearer abc authorization",
   "Authorization: Basic cm9vdDpwdw==",
   "AUTHORIZATION:PVEAPIToken=root@pam!mcp=c0ffee-42",
   "pveapitoken=ED"}

InitSanitize ==
  /\ env = BaseEnv
  /\ pc = "sanitize"
  /\ config = None
  /\ tlsOverride = FALSE
  /\ SENSITIVE_PATTERNS \in
       {registerSensitivePattern(registerSensitivePattern(<<>>, a), b) :
          a \in SanitizeSecrets, b \in SanitizeSecrets}
  /\ client = None
  /\ nextTool = 1
  /\ tools = {}
  /\ stderr = <<>>
  /\ exitCode = None
  /\ validation = <<>>
  /\ lastCall = NoCall
  /\ gate = None
  /\ probe \in {[text |-> m, sanitized |-> None, again |-> None] : m \in SanitizeTexts}
  /\ inflight = {}
  /\ http = NoHttp

MaxPatterns == 3

\* registerSensitivePattern(pattern), before the text is sanitized.
Register ==
  /\ pc = "sanitize"
  /\ probe.sanitized = None
  /\ Len(SENSITIVE_PATTERNS) < MaxPatterns
  /\ \E pattern \in SanitizeSecrets :
       SENSITIVE_PATTERNS' = registerSensitivePattern(SENSITIVE_PATTERNS, pattern)
  /\ UNCHANGED <<env, pc, config, tlsOverride, client, nextTool, tools, stderr, exitCode,
                 validation, lastCall, gate, probe, inflight, http>>

\* sanitizeMessage(probe.text)
Sanitize ==
  /\ pc = "sanitize"
  /\ probe.sanitized = None
  /\ probe' = [probe EXCEPT !.sanitized = Some(sanitizeMessage(probe.text))]
  /\ UNCHANGED <<env, pc, config, tlsOverride, SENSITIVE_PATTERNS, client, nextTool, tools,
                 stderr, exitCode, validation, lastCall, gate, inflight, http>>

\* sanitizeMessage applied to what sanitizeMessage returned, as the wrapped
\* executor does with a message the client has sanitized.
SanitizeAgain ==
  /\ pc = "sanitize"
  /\ probe.sanitized # None
  /\ probe.again = None
  /\ probe' = [probe EXCEPT !.again = Some(sanitizeMessage(probe.sanitized[1]))]
  /\ UNCHANGED <<env, pc, config, tlsOverride, SENSITIVE_PATTERNS, client, nextTool, tools,
                 stderr, exitCode, validation, lastCall, gate, inflight, http>>

NextSanitize ==
  \/ Register
  \/ Sanitize
  \/ SanitizeAgain

SpecSanitize == InitSanitize /\ [][NextSanitize]_vars

(***************************************************************************)
(* Calls in flight.  A serving process (startup has gone through as in     *)
(* Spec) takes tool calls while earlier ones still await the backend: each *)
(* call is one fetch of request(), answered by the backend or aborted by   *)
(* AbortSignal.timeout(REQUEST_TIMEOUT_MS).  Time passes in ticks.         *)
(***************************************************************************)
\* The most calls in flight at once.
MaxCalls == 2

\* The length of a tick of the clock, in milliseconds.
TICK_MS == 15000

CallIds == 1..MaxCalls

\* The ticks after which the timeout signal aborts a fetch.
TimeoutTicks == REQUEST_TIMEOUT_MS \div TICK_MS

CallEnvs == {BaseEnv, [BaseEnv EXCEPT !.PVE_ACCESS_TIER = Some("read-only")]}

CallNames == {"pve_list_nodes", "pve_delete_backup_job"}

\* What the backend, or the network, may answer before the timeout.
CallAnswers ==
  {Rejected("TypeError", "fetch failed"),
   Response(200, "OK", Some(JSON_TYPE), B_ENVELOPE),
   Response(500, "Internal Server Error", Some(JSON_TYPE), B_EMPTY)}

\* What fetch rejects with when the timeout signal aborts it.
TimeoutRejection == Rejected("TimeoutError", "The operation was aborted due to timeout")

\* Variant of Expired: a signal that never aborts.
ExpiredNever(q) == FALSE

\* AbortSignal.timeout(REQUEST_TIMEOUT_MS) has fired for the request q.
Expired(q) == q.elapsed >= TimeoutTicks

\* The call of q once its fetch has settled with `out`: what request()
\* came to, what the handler did, what the executor returns.
Settled(q, out) ==
  LET r == request(q.request.method, q.request.path, out)
      did == handler(q.name, SampleArgs, r)
  IN [id |-> q.id, name |-> q.name, request |-> q.request, out |-> out,
      returned |-> r, did |-> did, result |-> executor(did)]

\* The state main() leaves behind when startup succeeds.
InitCalls ==
  /\ env \in CallEnvs
  /\ pc = "serving"
  /\ config = Some(loadConfig(env).value)
  /\ tlsOverride = FALSE
  /\ SENSITIVE_PATTERNS =
       registerSensitivePattern(registerSensitivePattern(<<>>, config[1].tokenId),
                                config[1].tokenSecret)
  /\ client = Some(NewPveClient(config[1]))
  /\ nextTool = Len(Catalog) + 1
  /\ tools = {ToolEntry(Catalog[i]) : i \in {j \in 1..Len(Catalog) : registerTool(config[1], Catalog[j])}}
  /\ validation =
       <<Validated(client[1], Response(200, "OK", Some(JSON_TYPE), B_VERSION),
                   clientValidateConnection(client[1],
                                            Response(200, "OK", Some(JSON_TYPE), B_VERSION)))>>
  /\ stderr = <<validation[1].value,
                LogLine("INFO", "Access tier: " \o config[1].accessTier),
                LogLine("INFO", "mcp-pve listening on stdio")>>
  /\ exitCode = None
  /\ lastCall = NoCall
  /\ gate = Some([options |-> Catalog[Len(Catalog)],
                  returned |-> registerTool(config[1], Catalog[Len(Catalog)])])
  /\ probe = NoProbe
  /\ inflight = {}
  /\ http = NoHttp

\* A tools/call request arrives: the executor runs the handler, which
\* sends its request with the client's header and awaits the answer.
BeginCall ==
  /\ pc = "serving"
  /\ \E id \in CallIds, name \in CallNames :
       /\ \A q \in inflight : q.id # id
       /\ \E t \in tools : t.name = name
       /\ inflight' = inflight \cup
            {[id |-> id, name |-> name, request |-> HandlerRequest(name, SampleArgs),
              header |-> client[1].authHeader, elapsed |-> 0]}
  /\ UNCHANGED <<env, pc, config, tlsOverride, SENSITIVE_PATTERNS, client, nextTool, tools,
                 stderr, exitCode, validation, lastCall, gate, probe, http>>

\* Time passes for every request in flight.
Tick ==
  /\ pc = "serving"
  /\ inflight # {}
  /\ \A q \in inflight : q.elapsed < TimeoutTicks
  /\ inflight' = {[q EXCEPT !.elapsed = q.elapsed + 1] : q \in inflight}
  /\ UNCHANGED <<env, pc, config, tlsOverride, SENSITIVE_PATTERNS, client, nextTool, tools,
                 stderr, exitCode, validation, lastCall, gate, probe, http>>

\* The fetch of q settles with the backend's answer or a network failure,
\* and the call returns its result.
Respond(q) ==
  /\ pc = "serving"
  /\ q \in inflight
  /\ ~Expired(q)
  /\ \E out \in CallAnswers : lastCall' = Settled(q, out)
  /\ inflight' = inflight \ {q}
  /\ UNCHANGED <<env, pc, config, tlsOverride, SENSITIVE_PATTERNS, client, nextTool, tools,
                 stderr, exitCode, validation, gate, probe, http>>

\* The timeout signal aborts the fetch of q, and the call returns its result.
TimeoutFire(q) ==
  /\ pc = "serving"
  /\ q \in inflight
  /\ Expired(q)
  /\ lastCall' = Settled(q, TimeoutRejection)
  /\ inflight' = inflight \ {q}
  /\ UNCHANGED <<env, pc, config, tlsOverride, SENSITIVE_PATTERNS, client, nextTool, tools,
                 stderr, exitCode, validation, gate, probe, http>>

NextCalls ==
  \/ BeginCall
  \/ Tick
  \/ \E q \in inflight : Respond(q)
  \/ \E q \in inflight : TimeoutFire(q)

SpecCalls == InitCalls /\ [][NextCalls]_vars

\* What an abort by the timeout signal does to the requests in flight.
Aborted == \E q \in inflight : Expired(q) /\ inflight' = inflight \ {q}

\* The event loop runs: time passes, and a timeout that is due aborts its
\* request.  The backend owes no answer.
FairCalls ==
  /\ SpecCalls
  /\ WF_vars(Tick)
  /\ WF_inflight(Aborted)


(***************************************************************************)
(* core/server.ts: the HTTP transport.  startHttpServer has connected the  *)
(* transport and listens; each inbound request runs the request handler    *)
(* once.  The package version, the host and the port are inputs, and so is *)
(* what the SDK's transport.handleRequest does with a request.             *)
(***************************************************************************)
\* The most requests the server is sent.
MaxRequests == 2

SERVER_NAME == "mcp-pve"

MAX_BODY_BYTES == 4 * 1024 * 1024

PackageVersions == {"1.4.0", "2.0.1"}

HttpBinds == {[httpHost |-> "127.0.0.1", httpPort |-> 3000]}

NoExchange == [method |-> ""]

\* A request body as parseJsonBody sees it: the length of the text its
\* chunks decode to, the bytes sent, what JSON.parse makes of the text, and
\* whether the upload breaks off (the request's error event).
HttpBody(chars, bytes, json, aborted) ==
  [chars |-> chars, bytes |-> bytes, json |-> json, aborted |-> aborted]

HttpBodies ==
  {HttpBody(58, 58, JObj(<<Entry("jsonrpc", JStr("2.0")), Entry("id", JNum(1)),
                           Entry("method", JStr("tools/list"))>>), FALSE),
   HttpBody(1, 1, SyntaxErr("Expected property name or '}' in JSON at position 1"), FALSE),
   HttpBody(0, 0, SyntaxErr("Unexpected end of JSON input"), FALSE),
   HttpBody(MAX_BODY_BYTES, MAX_BODY_BYTES, JStr("a"), FALSE),
   HttpBody(MAX_BODY_BYTES + 1, MAX_BODY_BYTES + 1, JStr("a"), FALSE),
   HttpBody(MAX_BODY_BYTES + 1, MAX_BODY_BYTES + 1, SyntaxErr("Unexpected token"), FALSE),
   HttpBody(MAX_BODY_BYTES \div 2, 3 * (MAX_BODY_BYTES \div 2), JStr("a"), FALSE),
   HttpBody(58, 20, JNull, TRUE)}

HttpMethods == {"GET", "POST", "DELETE"}

HttpUrls == {"/mcp", "/health", "/", "/mcp?session=1"}

\* What transport.handleRequest may do: write a response of its own, throw
\* before it has written anything, throw after it has sent the headers.
HandleOutcomes ==
  {[kind |-> "wrote", status |-> 200],
   [kind |-> "wrote", status |-> 400],
   [kind |-> "threw", headersSent |-> FALSE, status |-> 0,
    error |-> ErrorObj("Error", "Not connected", None)],
   [kind |-> "threw", headersSent |-> TRUE, status |-> 200,
    error |-> ErrorObj("Error", "write after end", None)]}

\* parseJsonBody(req): what the promise settles with, and whether the
\* request, and the socket with it, has been destroyed (req.destroy()).
parseJsonBody(body) ==
  IF body.chars > MAX_BODY_BYTES
  THEN [destroyed |-> TRUE, r |-> Throw(ErrorObj("Error", "Request body too large", None))]
  ELSE IF body.aborted
  THEN [destroyed |-> TRUE, r |-> Throw(ErrorObj("Error", "aborted", None))]
  ELSE IF body.json.t = "SyntaxError"
  THEN [destroyed |-> FALSE, r |-> Throw(ErrorObj("SyntaxError", body.json.message, None))]
  ELSE [destroyed |-> FALSE, r |-> Return(body.json)]

\* What the caller receives: a response, or nothing when the socket was
\* destroyed before the response was written.
HttpResponse(status, contentType, body) ==
  [kind |-> "response", status |-> status, contentType |-> contentType, body |-> body]

ConnectionReset == [kind |-> "reset"]

\* The first line console.error prints for an Error.
InspectError(e) == e.name \o ": " \o e.message

\* The request handler of the HTTP server: the answer the caller gets and
\* the lines logged.  t is what transport.handleRequest does if it is run.
handleHttp(version, req, t) ==
  IF req.url = "/health" /\ req.method = "GET"
  THEN [answer |-> HttpResponse(200, Some("application/json"),
                                JObj(<<Entry("status", JStr("ok")),
                                       Entry("server", JStr(SERVER_NAME)),
                                       Entry("version", JStr(version))>>)),
        lines |-> <<>>]
  ELSE IF req.url = "/mcp"
  THEN LET parsed == IF req.method = "POST" THEN parseJsonBody(req.body)
                     ELSE [destroyed |-> FALSE, r |-> Return(Undefined)]
           failure == IF parsed.r.threw THEN Some(parsed.r.error)
                      ELSE IF t.kind = "threw" THEN Some(t.error)
                      ELSE None
           headersSent == ~parsed.r.threw /\ t.kind = "threw" /\ t.headersSent
           written ==
             IF failure = None \/ headersSent
             THEN [kind |-> "response", status |-> t.status, contentType |-> None,
                   body |-> [t |-> "transport", complete |-> failure = None]]
             ELSE IF failure[1].name = "SyntaxError"
             THEN HttpResponse(400, Some("application/json"),
                               JObj(<<Entry("error", JStr("Invalid JSON"))>>))
             ELSE HttpResponse(500, Some("application/json"),
                               JObj(<<Entry("error", JStr("Internal server error"))>>))
       IN [answer |-> IF parsed.destroyed THEN ConnectionReset ELSE written,
           lines |-> IF failure = None THEN <<>>
                     ELSE <<LogLine("ERROR", "MCP request handling error: "
                                             \o InspectError(failure[1]))>>]
  ELSE [answer |-> HttpResponse(404, None, JStr("Not found")), lines |-> <<>>]

\* The state startHttpServer leaves behind once the server listens.
InitHttp ==
  /\ env = BaseEnv
  /\ pc = "http"
  /\ config = Some(loadConfig(env).value)
  /\ tlsOverride = FALSE
  /\ SENSITIVE_PATTERNS =
       registerSensitivePattern(registerSensitivePattern(<<>>, config[1].tokenId),
                                config[1].tokenSecret)
  /\ client = Some(NewPveClient(config[1]))
  /\ nextTool = Len(Catalog) + 1
  /\ tools = {ToolEntry(Catalog[i]) : i \in {j \in 1..Len(Catalog) : registerTool(config[1], Catalog[j])}}
  /\ validation =
       <<Validated(client[1], Response(200, "OK", Some(JSON_TYPE), B_VERSION),
                   clientValidateConnection(client[1],
                                            Response(200, "OK", Some(JSON_TYPE), B_VERSION)))>>
  /\ \E version \in PackageVersions, bind \in HttpBinds :
       /\ http = [listening |-> TRUE, version |-> version, bind |-> bind,
                  handled |-> 0, last |-> NoExchange]
       /\ stderr = <<validation[1].value,
                     LogLine("INFO", "Access tier: " \o config[1].accessTier),
                     LogLine("INFO", SERVER_NAME \o " v" \o version \o " listening on http://"
                                     \o bind.httpHost \o ":" \o ToString(bind.httpPort) \o "/mcp")>>
  /\ exitCode = None
  /\ lastCall = NoCall
  /\ gate = Some([options |-> Catalog[Len(Catalog)],
                  returned |-> registerTool(config[1], Catalog[Len(Catalog)])])
  /\ probe = NoProbe
  /\ inflight = {}

\* One inbound request, handled to its end.
HttpRequest ==
  /\ pc = "http"
  /\ http.listening
  /\ http.handled < MaxRequests
  /\ \E method \in HttpMethods, url \in HttpUrls, body \in HttpBodies, t \in HandleOutcomes :
       LET req == [method |-> method, url |-> url, body |-> body]
           did == handleHttp(http.version, req, t)
       IN /\ http' = [http EXCEPT !.handled = http.handled + 1,
                                  !.last = [method |-> method, url |-> url, body |-> body,
                                            transport |-> t, answer |-> did.answer]]
          /\ stderr' = stderr \o did.lines
  /\ UNCHANGED <<env, pc, config, tlsOverride, SENSITIVE_PATTERNS, client, nextTool, tools,
                 exitCode, validation, lastCall, gate, probe, inflight>>

\* SIGTERM or SIGINT: shutdown() closes the server and exits with 0.
Shutdown ==
  /\ pc = "http"
  /\ http.listening
  /\ \E signal \in {"SIGTERM", "SIGINT"} :
       stderr' = stderr \o <<LogLine("INFO", "Received " \o signal \o ", shutting down...")>>
  /\ http' = [http EXCEPT !.listening = FALSE]
  /\ exitCode' = Some(0)
  /\ pc' = "exited"
  /\ UNCHANGED <<env, config, tlsOverride, SENSITIVE_PATTERNS, client, nextTool, tools,
                 validation, lastCall, gate, probe, inflight>>

NextHttp ==
  \/ HttpRequest
  \/ Shutdown

SpecHttp == InitHttp /\ [][NextHttp]_vars
(***************************************************************************)
(* Properties.  The helpers below restate what a property speaks of in     *)
(* terms of the state; they read the model and are no part of it.          *)
(***************************************************************************)
\* The order read-only < read-execute < full.
TierRank(t) == CHOOSE i \in 1..3 : <<"read-only", "read-execute", "full">>[i] = t

Registered(name) == \E t \in tools : t.name = name

\* registerAllTools has walked the whole catalog.
WalkDone == pc = "serving" \/ (pc = "registerAllTools" /\ nextTool > Len(Catalog))

\* A call has been made and its result is at hand.
Called == lastCall # NoCall

\* The backend answered the call with a success status.
AnsweredOk == Called /\ lastCall.out.kind = "response" /\ ResponseOk(lastCall.out)

\* The response declares a JSON content type.
DeclaresJson(out) ==
  out.contentType # None /\ Includes(ToLower(out.contentType[1]), "json")

\* The allow-list a property speaks of holds the category.
Lists(list, category) == \E i \in 1..Len(list) : list[i] = category

C2_NoSecretReachesCallerOrLog ==
  \A i \in 1..Len(SENSITIVE_PATTERNS) :
    /\ Called => ~Includes(lastCall.result.text, SENSITIVE_PATTERNS[i])
    /\ \A j \in 1..Len(stderr) : ~Includes(stderr[j], SENSITIVE_PATTERNS[i])

\* C3: a registered secret the message contains is not contained in the
\* sanitized message.
C3_SanitizedHoldsNoSecret ==
  probe.sanitized # None =>
    \A i \in 1..Len(SENSITIVE_PATTERNS) :
      Includes(probe.text, SENSITIVE_PATTERNS[i])
        => ~Includes(probe.sanitized[1], SENSITIVE_PATTERNS[i])

\* C4 (as the code has it): the executor never propagates what the handler
\* throws.  A thrown Error gives a failure result whose text is the
\* sanitized message, which shows [REDACTED] when the message held a
\* registered secret; any other thrown value gives a failure result with
\* the text "An unknown error occurred"; a normal return gives a
\* non-failure result with the returned text.
C4_ExecutorResult ==
  Called =>
    LET did == lastCall.did
        result == lastCall.result
    IN /\ (did.threw /\ did.error.isError) =>
            /\ result.isError
            /\ result.text = sanitizeMessage(did.error.message)
            /\ \A i \in 1..Len(SENSITIVE_PATTERNS) :
                 Includes(did.error.message, SENSITIVE_PATTERNS[i])
                   => Includes(result.text, "[REDACTED]")
       /\ (did.threw /\ ~did.error.isError) =>
            /\ result.isError
            /\ result.text = "An unknown error occurred"
       /\ ~did.threw => (~result.isError /\ result.text = did.value)

\* C4's case: the handler threw an Error naming the token secret, and the
\* caller got a failure result with the marker in its place.
C4_Witness ==
  /\ Called
  /\ lastCall.did.threw
  /\ lastCall.did.error.isError
  /\ Includes(lastCall.did.error.message, "c0ffee-42")
  /\ lastCall.result.isError
  /\ lastCall.result.text = "login with secret [REDACTED] was refused"

\* C4 as stated: whenever the handler throws, the result is a failure whose
\* text is the sanitized message of what was thrown.
C4_AsStated ==
  Called =>
    /\ lastCall.did.threw =>
         /\ lastCall.result.isError
         /\ lastCall.result.text = sanitizeMessage(lastCall.did.error.message)
    /\ ~lastCall.did.threw =>
         (~lastCall.result.isError /\ lastCall.result.text = lastCall.did.value)

\* C5: when PVE_CATEGORIES is set to a non-empty value, every tool
\* registered by startup is in a category the value names.
C5_OnlyListedCategories ==
  (WalkDone /\ env.PVE_CATEGORIES # None /\ env.PVE_CATEGORIES[1] # "") =>
    \A i \in 1..Len(Catalog) :
      Registered(Catalog[i].name)
        => Lists(CategoryNames(env.PVE_CATEGORIES[1]), Catalog[i].category)

\* C6: with no category filter, the walk of the catalog registers 51 tools
\* at tier read-only, 68 at read-execute and 105 at full, and none whose
\* minimum tier is above the process tier.
C6_ToolCounts ==
  (WalkDone /\ config[1].categories = None) =>
    /\ Cardinality(tools) =
         CASE config[1].accessTier = "read-only" -> 51
           [] config[1].accessTier = "read-execute" -> 68
           [] config[1].accessTier = "full" -> 105
    /\ \A i \in 1..Len(Catalog) :
         TierRank(Catalog[i].accessTier) > TierRank(config[1].accessTier)
           => ~Registered(Catalog[i].name)

\* C6's case: the walk is over at tier read-execute with no filter.
C6_Witness ==
  /\ pc = "serving"
  /\ config[1].categories = None
  /\ config[1].accessTier = "read-execute"
  /\ Cardinality(tools) = 68
  /\ ~Registered("pve_delete_backup_job")

\* The errors of the body B_ERRORS as request() appends them.
ErrorsSuffix(out) ==
  IF out.body = B_ERRORS
  THEN " " \o EM_DASH \o " vmid: invalid format, node: no such node"
  ELSE ""

\* C7 (as the code has it): a backend call that returns a non-success
\* status, 401 and 403 like any other, reaches the caller as a failure
\* result, not as an exception; its text is "<METHOD> <path> failed:
\* <status> <status text>" with the errors of the body, sanitized by the
\* client and by the executor.  Nothing about authentication is added.
C7_StatusFailureResult ==
  (Called /\ lastCall.out.kind = "response" /\ ~ResponseOk(lastCall.out)) =>
    /\ lastCall.result.isError
    /\ lastCall.result.text =
         sanitizeMessage(sanitizeMessage(
           lastCall.request.method \o " " \o lastCall.request.path \o " failed: "
           \o ToString(lastCall.out.status) \o " " \o lastCall.out.statusText
           \o ErrorsSuffix(lastCall.out)))

\* C7's case: the backend answered 403 to the listing of the nodes.
C7_Witness ==
  /\ Called
  /\ lastCall.out.kind = "response"
  /\ lastCall.out.status = 403
  /\ lastCall.result.isError
  /\ lastCall.result.text = "GET /nodes failed: 403 Forbidden"

\* C7 as stated: after a 401 or a 403 the caller gets a failure result whose
\* message mentions authentication.
C7_AsStated ==
  (Called /\ lastCall.out.kind = "response" /\ lastCall.out.status \in {401, 403}) =>
    /\ lastCall.result.isError
    /\ Includes(ToLower(lastCall.result.text), "authenticat")

\* C8: for a successful response of JSON content type whose body parses,
\* request() returns the data field of an object that has one, and any
\* other parsed value unchanged.
C8_JsonUnwrap ==
  (AnsweredOk /\ DeclaresJson(lastCall.out) /\ lastCall.out.body.json.t # "SyntaxError") =>
    LET json == lastCall.out.body.json
        envelope == json.t = "object" /\ \E i \in 1..Len(json.entries) : json.entries[i].k = "data"
    IN /\ ~lastCall.returned.threw
       /\ lastCall.returned.value =
            IF envelope
            THEN json.entries[CHOOSE i \in 1..Len(json.entries) : json.entries[i].k = "data"].v
            ELSE json

\* C9: for a successful response whose content type is not JSON, or is
\* missing, request() returns the body text, or null when the text is
\* empty, and throws nothing.
C9_TextOrNull ==
  (AnsweredOk /\ ~DeclaresJson(lastCall.out)) =>
    /\ ~lastCall.returned.threw
    /\ lastCall.returned.value =
         IF lastCall.out.body.text = "" THEN [t |-> "null"]
         ELSE [t |-> "string", s |-> lastCall.out.body.text]

\* C9's case: a success without content type and with an empty body.
C9_Witness ==
  /\ AnsweredOk
  /\ lastCall.out.contentType = None
  /\ lastCall.out.body.text = ""
  /\ ~lastCall.returned.threw
  /\ lastCall.returned.value = [t |-> "null"]
  /\ ~lastCall.result.isError

\* The validation request was made and failed.
ValidationFailed == Len(validation) = 1 /\ validation[1].threw

\* C10: the connection is validated once, before any tool is registered and
\* before any call is served; a failed validation logs the sanitized detail
\* and exits with status 1, and nothing is registered or served after it.
C10_StartupOrdering ==
  /\ Len(validation) <= 1
  /\ (tools # {} \/ nextTool > 1 \/ gate # None \/ Called
        \/ pc \in {"registerAllTools", "serving"})
       => (Len(validation) = 1 /\ ~validation[1].threw)
  /\ ValidationFailed =>
       /\ pc = "exited"
       /\ exitCode = Some(1)
       /\ stderr[Len(stderr)] =
            LogLine("ERROR", "Details: " \o sanitizeMessage(validation[1].error.message))
       /\ tools = {}
       /\ nextTool = 1
       /\ gate = None
       /\ ~Called

\* C10's case: the validation request was refused with 401 and the process
\* has exited.
C10_Witness ==
  /\ ValidationFailed
  /\ validation[1].error.statusCode = Some(401)
  /\ pc = "exited"
  /\ exitCode = Some(1)
  /\ tools = {}

\* C11: registerTool's tests run once for each definition of the catalog, in
\* the walk of startup and before any call; once the server is serving, no
\* call adds or removes a tool or runs the tests again.
C11_RegistryFixedAfterStartup ==
  /\ [](Called => (pc = "serving" /\ nextTool = Len(Catalog) + 1))
  /\ [][/\ gate' # gate =>
             /\ pc = "registerAllTools"
             /\ ~Called
             /\ nextTool <= Len(Catalog)
             /\ gate'[1].options = Catalog[nextTool]
             /\ nextTool' = nextTool + 1
        /\ nextTool' # nextTool => gate' # gate
        /\ tools' # tools => gate' # gate
        /\ pc = "serving" => UNCHANGED <<tools, gate, nextTool, config>>]_vars

\* C11's case: a call has failed while the server holds the 105 tools of
\* tier full.
C11_Witness ==
  /\ pc = "serving"
  /\ Called
  /\ lastCall.result.isError
  /\ nextTool = Len(Catalog) + 1
  /\ Cardinality(tools) = 105

C13_TimeoutLikeNetworkFailure ==
  (Called /\ lastCall.out.kind = "reject") =>
    /\ lastCall.returned.threw
    /\ lastCall.returned.error.name = "PveError"
    /\ lastCall.returned.error.statusCode = None
    /\ lastCall.result.isError

\* C13's case: fetch rejected with the TimeoutError of AbortSignal.timeout.
C13_Witness ==
  /\ Called
  /\ lastCall.out.kind = "reject"
  /\ lastCall.out.error.name = "TimeoutError"
  /\ lastCall.returned.threw
  /\ lastCall.returned.error.name = "PveError"
  /\ lastCall.returned.error.statusCode = None

\* The call `id` awaits its backend request.
Pending(id) == \E q \in inflight : q.id = id

\* C14: whatever the interleaving of the calls in flight, failing ones
\* included, no step after startup changes the secret registry or the
\* client; every request in flight carries the header
\* PVEAPIToken=<id>=<secret>; and a call that settles, failing or not,
\* takes only its own request out of flight and leaves the server serving
\* with the same tools.
C14_CallsShareOnlyFixedState ==
  /\ [](\A q \in inflight :
          q.header = "PVEAPIToken=" \o env.PVE_TOKEN_ID[1] \o "=" \o env.PVE_TOKEN_SECRET[1])
  /\ [](SENSITIVE_PATTERNS = <<env.PVE_TOKEN_ID[1], env.PVE_TOKEN_SECRET[1]>>)
  /\ [][/\ UNCHANGED <<SENSITIVE_PATTERNS, client, config, tools, pc, exitCode>>
        /\ \A q \in inflight :
             \/ \E p \in inflight' :
                  p.id = q.id /\ p.header = q.header /\ p.request = q.request
             \/ /\ inflight' = inflight \ {q}
                /\ lastCall'.id = q.id]_vars

\* C14's case: a call has just failed while another is still in flight.
C14_Witness ==
  /\ Called
  /\ lastCall.result.isError
  /\ \E q \in inflight : q.id # lastCall.id /\ q.elapsed > 0

\* C19: a request in flight does not stay in flight for ever: it settles
\* with what the backend answered, or the timeout signal aborts it once
\* the timeout has elapsed, and it is never aborted before that.
C19_PendingResolves ==
  /\ \A id \in CallIds : Pending(id) ~> ~Pending(id)
  /\ [][\A q \in inflight :
          (inflight' = inflight \ {q} /\ lastCall'.out = TimeoutRejection)
            => q.elapsed = TimeoutTicks]_vars

\* C19's case: the backend never answered and the call ended as a failure
\* when the timeout elapsed.
C19_Witness ==
  /\ Called
  /\ lastCall.out = TimeoutRejection
  /\ lastCall.returned.threw
  /\ lastCall.result.isError
  /\ ~Pending(lastCall.id)


\* C15: every failure that leaves the request engine, from request() or
\* from validateConnection(), is a PveError whose message went through
\* sanitizeMessage (so the token id, which the registry holds, is not in
\* it), and it carries the status of the response when one was received.
C15_EngineFailuresTypedSanitized ==
  /\ \A i \in 1..Len(validation) :
       validation[i].threw =>
         /\ validation[i].error.name = "PveError"
         /\ ~Includes(validation[i].error.message, config[1].tokenId)
  /\ (Called /\ lastCall.returned.threw) =>
       /\ lastCall.returned.error.name = "PveError"
       /\ ~Includes(lastCall.returned.error.message, config[1].tokenId)
       /\ lastCall.out.kind = "response" =>
            lastCall.returned.error.statusCode = Some(lastCall.out.status)


\* The required settings, in the order loadConfig tests them.
RequiredVars == <<"PVE_BASE_URL", "PVE_TOKEN_ID", "PVE_TOKEN_SECRET">>

\* A required setting is absent or empty.
Unset(name) == env[name] = None \/ env[name] = Some("")

\* C16: when a required setting is absent or empty, startup ends at once
\* with exit status 1, before a client exists, before a secret is registered
\* and before a request is sent; the one line logged names exactly the
\* missing variables and holds no value of a setting that was supplied.
C16_MissingSettingExits ==
  ((\E i \in 1..Len(RequiredVars) : Unset(RequiredVars[i])) /\ pc # "loadConfig") =>
    /\ pc = "exited"
    /\ exitCode = Some(1)
    /\ config = None
    /\ client = None
    /\ SENSITIVE_PATTERNS = <<>>
    /\ validation = <<>>
    /\ tools = {}
    /\ lastCall = NoCall
    /\ stderr = <<"[mcp-pve] ERROR Missing required environment variables: "
                  \o Join(SelectSeq(RequiredVars, Unset), ", ")
                  \o ". Set these variables to connect to your Proxmox VE instance.">>
    /\ \A i \in 1..Len(RequiredVars) :
         ~Unset(RequiredVars[i]) => ~Includes(stderr[1], env[RequiredVars[i]][1])

C16_Witness ==
  /\ pc = "exited"
  /\ env.PVE_TOKEN_ID = Some("")
  /\ env.PVE_TOKEN_SECRET = Some("c0ffee-42")
  /\ env.PVE_BASE_URL = Some("https://pve:8006")
  /\ Len(stderr) = 1

\* The text is one Authorization header line: the header name in any letter
\* case, a colon, and a value that is not blank.
HeaderLine(t) ==
  /\ Len(t) > 14
  /\ ToLower(SubSeq(t, 1, 14)) = "authorization:"
  /\ SpaceRun(From(t, 15)) < Len(t) - 14
  /\ ~Includes(t, "\n")

\* What follows position i of s is the marker and then a space or the end.
MarkerAt(s, i) ==
  /\ SubSeq(s, i, i + Len(REDACTED) - 1) = REDACTED
  /\ (i + Len(REDACTED) > Len(s) \/ IsSpace(CharAt(s, i + Len(REDACTED))))

\* C17: in a sanitized text every token parameter PVEAPIToken=<value>, in
\* any letter case, reads PVEAPIToken=[REDACTED], and an Authorization
\* header line, in any letter case, is reduced to the header name and
\* [REDACTED], nothing of its value remaining.
C17_StructuralRedaction ==
  probe.sanitized # None =>
    /\ \A i \in Occurrences(ToLower(probe.sanitized[1]), "pveapitoken=") :
         \/ i + 12 > Len(probe.sanitized[1])
         \/ IsSpace(CharAt(probe.sanitized[1], i + 12))
         \/ MarkerAt(probe.sanitized[1], i + 12)
    /\ HeaderLine(probe.text) => probe.sanitized[1] = "authorization: " \o REDACTED

\* C18: whenever a request can be or has been issued (the validation call
\* of startup included) the registry is the credential id followed by the
\* credential secret, and the registry only grows: what it held stays, in
\* place, in every later state.
C18_RegistryBeforeRequests ==
  /\ []((pc \in {"validateConnection", "registerAllTools", "serving"}
           \/ Len(validation) > 0 \/ Called)
          => SENSITIVE_PATTERNS = <<env.PVE_TOKEN_ID[1], env.PVE_TOKEN_SECRET[1]>>)
  /\ [][/\ Len(SENSITIVE_PATTERNS') >= Len(SENSITIVE_PATTERNS)
        /\ SubSeq(SENSITIVE_PATTERNS', 1, Len(SENSITIVE_PATTERNS)) = SENSITIVE_PATTERNS]_vars

C18_Witness ==
  /\ Len(validation) = 1
  /\ Called
  /\ lastCall.out.kind = "response"
  /\ SENSITIVE_PATTERNS = <<"root@pam!mcp", "ED">>

\* The definition of the tool of that name in the catalog.
DefinitionOf(name) == Catalog[CHOOSE i \in 1..Len(Catalog) : Catalog[i].name = name]

\* C20: the destructive hint a registered tool exposes is false when its
\* definition declares none, and the declared value when it declares one.
C20_DestructiveHintDefault ==
  \A t \in tools :
    t.annotations.destructiveHint =
      (IF "destructiveHint" \in DOMAIN DefinitionOf(t.name).annotations
       THEN DefinitionOf(t.name).annotations.destructiveHint
       ELSE FALSE)

C20_Witness ==
  /\ WalkDone
  /\ \E t \in tools :
       /\ t.name = "pve_delete_backup_job"
       /\ t.annotations.destructiveHint
  /\ \E t \in tools :
       /\ t.name = "pve_list_nodes"
       /\ DefinitionOf(t.name).annotations = NoAnnotations
       /\ ~t.annotations.destructiveHint

\* The entries of a registry without the repetitions, the first of each kept.
RECURSIVE Once(_)
Once(patterns) ==
  IF Len(patterns) = 0 THEN <<>>
  ELSE LET front == Once(SubSeq(patterns, 1, Len(patterns) - 1))
           last == patterns[Len(patterns)]
       IN IF \E i \in 1..Len(front) : front[i] = last THEN front ELSE Append(front, last)

\* C21: a registration appends its argument when it is not empty and leaves
\* the registry as it is when it is empty, so the registry holds no empty
\* string; and a text is sanitized to the same result as with the registry
\* in which every secret is registered once only.
C21_RegisterIdempotentInEffect ==
  /\ [](\A i \in 1..Len(SENSITIVE_PATTERNS) : SENSITIVE_PATTERNS[i] # "")
  /\ [][SENSITIVE_PATTERNS' # SENSITIVE_PATTERNS =>
          /\ Len(SENSITIVE_PATTERNS') = Len(SENSITIVE_PATTERNS) + 1
          /\ SubSeq(SENSITIVE_PATTERNS', 1, Len(SENSITIVE_PATTERNS)) = SENSITIVE_PATTERNS
          /\ SENSITIVE_PATTERNS'[Len(SENSITIVE_PATTERNS')] # ""]_vars
  /\ [](probe.sanitized # None =>
          probe.sanitized[1] =
            StripAuthorization(StripApiToken(RedactPatterns(Once(SENSITIVE_PATTERNS), probe.text))))

\* The response was not a success.
AnsweredError == Called /\ lastCall.out.kind = "response" /\ ~ResponseOk(lastCall.out)

\* The body of the response parses as an object whose errors field is an
\* object of at least one pair.
StructuredErrors(out) ==
  /\ out.body.json.t = "object"
  /\ GetProp(out.body.json, "errors").t = "object"
  /\ Len(GetProp(out.body.json, "errors").entries) > 0

\* The pairs of a structured error body, as "field: message", joined.
FieldMessages(out) ==
  LET pairs == GetProp(out.body.json, "errors").entries
  IN Concat([i \in 1..Len(pairs) |->
               (IF i > 1 THEN ", " ELSE "") \o pairs[i].k \o ": " \o pairs[i].v.s])

\* C22: after a non-success status request() throws a PveError that carries
\* the status code, whatever the body; its message is the sanitized
\* "<METHOD> <path> failed: <status> <status text>", followed by the
\* "field: message" pairs when the body is a structured error object and by
\* nothing when the body does not parse or has no errors; the parse error
\* never takes its place.
C22_ErrorBodyDetail ==
  AnsweredError =>
    /\ lastCall.returned.threw
    /\ lastCall.returned.error.name = "PveError"
    /\ lastCall.returned.error.statusCode = Some(lastCall.out.status)
    /\ lastCall.returned.error.message =
         sanitizeMessage(
           lastCall.request.method \o " " \o lastCall.request.path \o " failed: "
           \o ToString(lastCall.out.status) \o " " \o lastCall.out.statusText
           \o (IF StructuredErrors(lastCall.out)
               THEN " " \o EM_DASH \o " " \o FieldMessages(lastCall.out)
               ELSE ""))

\* C22's case: a 500 whose body is not JSON.
C22_Witness ==
  /\ AnsweredError
  /\ lastCall.out.status = 500
  /\ lastCall.out.body.json.t = "SyntaxError"
  /\ lastCall.out.body.text = "OK"
  /\ lastCall.returned.error.message = "GET /nodes failed: 500 Internal Server Error"
  /\ lastCall.returned.error.statusCode = Some(500)

\* The answer to the validation request is a success the method can read:
\* a success status and a body that parses to something other than null.
ValidationAnswerGood(seen) ==
  /\ seen.kind = "response"
  /\ seen.status >= 200
  /\ seen.status <= 299
  /\ seen.json.t \notin {"SyntaxError", "null"}

\* The answer to the validation request is a 401 or a 403.
ValidationRefused(seen) == seen.kind = "response" /\ seen.status \in {401, 403}

\* The version a body reports, "unknown" when it reports none.
ReportedVersion(seen) ==
  IF seen.json.version.t = "string" THEN seen.json.version.s ELSE "unknown"

\* C23: validateConnection makes one GET of <base>/api2/json/version with
\* the token header.  A 401 or 403 is thrown as the authentication failure;
\* every other failure (another non-success status, a network failure, a
\* timeout, a body that cannot be read) is thrown as a connectivity failure
\* that does not speak of authentication; a good answer throws nothing and
\* logs the connection with the version the body reports.
C23_ValidationClassifies ==
  /\ Len(validation) <= 1
  /\ \A i \in 1..Len(validation) :
       LET v == validation[i]
       IN /\ v.request.method = "GET"
          /\ v.request.url = config[1].baseUrl \o "/api2/json/version"
          /\ v.request.header = "PVEAPIToken=" \o config[1].tokenId \o "=" \o config[1].tokenSecret
          /\ ValidationRefused(v.seen) =>
               /\ v.threw
               /\ v.error.name = "PveError"
               /\ v.error.message =
                    "Authentication failed -- check PVE_TOKEN_ID and PVE_TOKEN_SECRET"
          /\ (~ValidationAnswerGood(v.seen) /\ ~ValidationRefused(v.seen)) =>
               /\ v.threw
               /\ v.error.name = "PveError"
               /\ ~Includes(ToLower(v.error.message), "authenticat")
               /\ \/ SubSeq(v.error.message, 1, 25) = "Connection check failed: "
                  \/ SubSeq(v.error.message, 1, 28) = "Cannot connect to Proxmox VE"
          /\ ValidationAnswerGood(v.seen) =>
               /\ ~v.threw
               /\ \E j \in 1..Len(stderr) :
                    /\ stderr[j] = v.value
                    /\ SubSeq(stderr[j], 1, Len("[mcp-pve] INFO Connected to Proxmox VE at "))
                         = "[mcp-pve] INFO Connected to Proxmox VE at "
                    /\ Includes(stderr[j], "(version: " \o ReportedVersion(v.seen))

\* C23's case: the version endpoint answered 403.
C23_Witness ==
  /\ Len(validation) = 1
  /\ ValidationRefused(validation[1].seen)
  /\ validation[1].seen.status = 403
  /\ validation[1].threw
  /\ validation[1].error.statusCode = Some(403)
  /\ pc = "exited"

\* PVE_VERIFY_SSL is the string "false".
VerificationDisabled == env.PVE_VERIFY_SSL = Some("false")

\* C24: the TLS override is applied exactly when PVE_VERIFY_SSL is "false"
\* and the configuration has loaded; it is in place in the state in which
\* the client is constructed and in every state in which a request has been
\* made, and with any other value of the variable it is never applied.
C24_TlsOverrideBeforeClient ==
  /\ [](tlsOverride <=> (VerificationDisabled /\ config # None))
  /\ []((client # None \/ Len(validation) > 0 \/ Called)
          => (tlsOverride <=> VerificationDisabled))
  /\ [][(client = None /\ client' # None) => (tlsOverride <=> VerificationDisabled)]_vars

\* C24's case: verification is disabled and a call has been served.
C24_Witness ==
  /\ VerificationDisabled
  /\ tlsOverride
  /\ client # None
  /\ Len(validation) = 1
  /\ Called

\* The server has handled a request whose caller stayed connected.
Exchanged == http.listening /\ http.last # NoExchange /\ ~http.last.body.aborted

\* A POST to /mcp.
PostMcp == http.last.method = "POST" /\ http.last.url = "/mcp"

\* The JSON body { "error": message } of a failure answer.
ErrorAnswer(status, message) ==
  HttpResponse(status, Some("application/json"), JObj(<<Entry("error", JStr(message))>>))

\* C25: on the HTTP transport a POST to /mcp whose body is not valid JSON is
\* answered 400 "Invalid JSON"; a body over the 4 MB cap, and a failure of
\* the handling before anything was written, are answered 500; any path
\* other than /mcp and GET /health is answered 404; and a request never
\* ends the process: the server still listens and has not exited.
C25_MalformedInboundAnswered ==
  /\ [](Exchanged =>
          /\ (PostMcp /\ http.last.body.bytes <= MAX_BODY_BYTES
                /\ http.last.body.json.t = "SyntaxError")
               => http.last.answer = ErrorAnswer(400, "Invalid JSON")
          /\ (PostMcp /\ http.last.body.bytes > MAX_BODY_BYTES)
               => (http.last.answer.kind = "response" /\ http.last.answer.status = 500)
          /\ (http.last.url = "/mcp"
                /\ (PostMcp => (http.last.body.bytes <= MAX_BODY_BYTES
                                  /\ http.last.body.json.t # "SyntaxError"))
                /\ http.last.transport.kind = "threw" /\ ~http.last.transport.headersSent)
               => http.last.answer = ErrorAnswer(500, "Internal server error")
          /\ (http.last.url # "/mcp"
                /\ ~(http.last.url = "/health" /\ http.last.method = "GET"))
               => (http.last.answer.kind = "response" /\ http.last.answer.status = 404))
  /\ [][http'.handled # http.handled =>
          (pc' = "http" /\ exitCode' = None /\ http'.listening)]_vars
  /\ []((pc = "http" /\ http.handled < MaxRequests) => ENABLED HttpRequest)

\* C26: the tier of the configuration is read-only or read-execute only
\* when PVE_ACCESS_TIER is exactly that string, and full for every other
\* value (absent, empty, misspelled, in another letter case); at tier full
\* no tool is rejected by the tier check: registerTool returns false only
\* for a tool whose category the allow-list leaves out.
C26_TierFailsOpen ==
  config # None =>
    /\ config[1].accessTier =
         (IF env.PVE_ACCESS_TIER = Some("read-only") THEN "read-only"
          ELSE IF env.PVE_ACCESS_TIER = Some("read-execute") THEN "read-execute"
          ELSE "full")
    /\ (config[1].accessTier = "full" /\ gate # None) =>
         (gate[1].returned <=>
            (config[1].categories = None
               \/ \E i \in 1..Len(config[1].categories[1]) :
                    config[1].categories[1][i] = gate[1].options.category))
    /\ (config[1].accessTier = "full" /\ WalkDone /\ config[1].categories = None) =>
         \A i \in 1..Len(Catalog) : Registered(Catalog[i].name)

\* C26's case: the tier was written in another letter case.
C26_Witness ==
  /\ env.PVE_ACCESS_TIER = Some("Read-Only")
  /\ pc = "serving"
  /\ config[1].accessTier = "full"
  /\ Registered("pve_delete_backup_job")
  /\ Cardinality(tools) = 105

\* C27: the allow-list of a loaded configuration is null or a list of at
\* least one name; every name in it is a valid category that the variable
\* names, so the unknown names are not in it, and it is never the empty
\* list.
C27_AllowListNullOrValid ==
  config # None =>
    \/ config[1].categories = None
    \/ /\ Len(config[1].categories) = 1
       /\ Len(config[1].categories[1]) > 0
       /\ env.PVE_CATEGORIES # None
       /\ \A i \in 1..Len(config[1].categories[1]) :
            /\ \E j \in 1..Len(VALID_CATEGORIES) :
                 VALID_CATEGORIES[j] = config[1].categories[1][i]
            /\ Includes(env.PVE_CATEGORIES[1], config[1].categories[1][i])
            /\ config[1].categories[1][i] # "bogus"

\* C27's case: a value that names two categories and an unknown name.
C27_Witness ==
  /\ config # None
  /\ env.PVE_CATEGORIES = Some("access,bogus,backup")
  /\ config[1].categories = Some(<<"access", "backup">>)

\* The allow-list wide admits every category the allow-list narrow admits:
\* it is null, or both are lists and it holds every name of narrow.
AtLeastAsWide(narrow, wide) ==
  \/ wide = None
  \/ /\ narrow # None
     /\ \A i \in 1..Len(narrow[1]) : Lists(wide[1], narrow[1][i])

\* C28: a definition admitted under a configuration is admitted under every
\* configuration whose tier is the same or higher and whose allow-list is
\* the same, a list that contains it, or no filter.
C28_AdmissionMonotone ==
  (gate # None /\ gate[1].returned) =>
    /\ Registered(gate[1].options.name)
    /\ \A c \in GateConfigs :
         (/\ TierRank(c.accessTier) >= TierRank(config[1].accessTier)
          /\ AtLeastAsWide(config[1].categories, c.categories))
           => registerTool(c, gate[1].options)

\* C28's case: a storage tool admitted at tier read-only under the list
\* that names storage alone.
C28_Witness ==
  /\ gate # None
  /\ gate[1].returned
  /\ gate[1].options.category = "storage"
  /\ config[1].accessTier = "read-only"
  /\ config[1].categories = Some(<<"storage">>)
  /\ Registered(gate[1].options.name)

\* The handler threw a value that is not an Error instance.
ThrewNonError == Called /\ lastCall.did.threw /\ ~lastCall.did.error.isError

\* C29: when the handler throws a value that is not an Error instance the
\* executor returns the failure result whose text is "An unknown error
\* occurred" and nothing else: no text of the thrown value is in it, and
\* the process goes on as before, nothing having been thrown further.
C29_NonErrorThrown ==
  ThrewNonError =>
    /\ lastCall.result = [text |-> "An unknown error occurred", isError |-> TRUE]
    /\ ~Includes(lastCall.result.text, lastCall.did.error.message)
    /\ pc = "gate"
    /\ exitCode = None
    /\ stderr = <<>>

\* C29's case: the thrown value was an object whose message names the token.
C29_Witness ==
  /\ ThrewNonError
  /\ lastCall.did.error.message = "token root@pam!mcp expired"
  /\ lastCall.result.isError
  /\ lastCall.result.text = "An unknown error occurred"

\* request() came to a failure.
RequestFailed == Called /\ lastCall.returned.threw

\* C30: a failure of request() carries a status code exactly when a
\* response of non-success status was received, and the code is that
\* status; a failure of the network, of the timeout or of the reading of
\* the body carries none.  The PveError thrown for a non-success status
\* leaves request() as it was built: its message is the failure text
\* sanitized once, and its status code is kept.
C30_StatusCodeIffErrorStatus ==
  /\ RequestFailed =>
       /\ lastCall.returned.error.name = "PveError"
       /\ (lastCall.returned.error.statusCode # None) <=> AnsweredError
       /\ AnsweredError =>
            lastCall.returned.error =
              PveError(sanitizeMessage(lastCall.request.method \o " " \o lastCall.request.path
                                       \o " failed: " \o ErrorDetail(lastCall.out)),
                       Some(lastCall.out.status))
       /\ lastCall.out.kind = "reject" =>
            lastCall.returned.error =
              PveError(sanitizeMessage(lastCall.out.error.message), None)
  /\ AnsweredError => RequestFailed

\* C30's case: a success status whose JSON body does not parse.
C30_Witness ==
  /\ RequestFailed
  /\ AnsweredOk
  /\ lastCall.out.body.json.t = "SyntaxError"
  /\ lastCall.returned.error.statusCode = None
  /\ lastCall.returned.error.name = "PveError"
====
